---- MODULE Spec2Model ----
(***************************************************************************)
(* TogetherWe (khoa288/rizzGPT_TogetherWe): the Laugh and Shake round      *)
(* controllers of game_app/js (laugh.js holds the laugh page and, from     *)
(* line 316 on, the shake page) and the shared core utilities              *)
(* (unnamed/part_000: sanitizeName, loadScores, saveScore).                *)
(*                                                                         *)
(* The browser is single threaded: every action below is one event-loop    *)
(* task (a click handler, a timer callback, a sensor callback, or the      *)
(* continuation of an async function after an await) run to completion.    *)
(*                                                                         *)
(* Fixed point.  Probabilities are in hundredths (0..100), RMS amplitudes  *)
(* in thousandths, times in milliseconds.  The shake frame clock is an     *)
(* IEEE-754 double and is modelled as one (see FAdd).                      *)
(***************************************************************************)
EXTENDS Integers, Sequences, FiniteSets, TLC

(* ------------------------------ bounds -------------------------------- *)
\* start clicks that pass the preconditions, per behaviour
MaxRounds == 2
\* calibration loop iterations modelled per round (the loop runs ~40 times)
MaxCalibSamples == 2
\* audio ticks per round on which the classifier reports laughter (p > 0)
MaxLaughTicks == 1
\* audio ticks per round on which the RMS exceeds the loudness threshold
MaxLoudTicks == 1
\* audio ticks per round on which the classifier throws
MaxErrTicks == 1
\* devicemotion events delivered per round
MaxMotionEvents == 1
\* saveScore calls in the store-only specification
MaxSaves == 3

(* ------------------------ program constants --------------------------- *)
ROUND_DURATION == 10000
TICK_INTERVAL == 250
TOP_N == 10
NAME_MAX == 16

Modes == {"laugh", "shake"}
Rounds == 1..MaxRounds

(* ------------------------------ names --------------------------------- *)
\* A string is a sequence of one-character strings.
Upper == {"A","B","C","D","E","F","G","H","I","J","K","L","M",
          "N","O","P","Q","R","S","T","U","V","W","X","Y","Z"}
Lower == {"a","b","c","d","e","f","g","h","i","j","k","l","m",
          "n","o","p","q","r","s","t","u","v","w","x","y","z"}
Digit == {"0","1","2","3","4","5","6","7","8","9"}
\* the character class [A-Za-z0-9_ ]
NameChars == Upper \cup Lower \cup Digit \cup {"_", " "}
\* what String.prototype.trim strips
WhiteSpace == {" ", "\t", "\n"}

RECURSIVE TrimLeft(_)
TrimLeft(s) ==
    IF s # <<>> /\ Head(s) \in WhiteSpace THEN TrimLeft(Tail(s)) ELSE s

RECURSIVE TrimRight(_)
TrimRight(s) ==
    IF s # <<>> /\ s[Len(s)] \in WhiteSpace
    THEN TrimRight(SubSeq(s, 1, Len(s) - 1)) ELSE s

Trim(s) == TrimRight(TrimLeft(s))

\* the pattern without its upper length limit
sanitizeNameUnbounded(name) ==
    LET s == Trim(name) IN
    IF Len(s) >= 1 /\ \A i \in 1..Len(s) : s[i] \in NameChars
    THEN s ELSE <<>>

\* /^[A-Za-z0-9_ ]{1,16}$/.test(s) ? s : ""
sanitizeName(name) ==
    LET s == Trim(name) IN
    IF Len(s) >= 1 /\ Len(s) <= NAME_MAX /\ \A i \in 1..Len(s) : s[i] \in NameChars
    THEN s ELSE <<>>

\* What the name field may hold when a handler reads it.
NameInputs ==
    { <<"A","l">>, <<" ","B","o"," ">>, <<>>, <<"<","b",">">> }

(* ---------------------------- score store ----------------------------- *)
\* a.score || 0
ScoreOr0(e) == e.score

\* a sort that puts a new entry ahead of the entries of equal score
RECURSIVE InsertDescBefore(_, _)
InsertDescBefore(sorted, e) ==
    IF sorted = <<>> THEN <<e>>
    ELSE IF ScoreOr0(Head(sorted)) > ScoreOr0(e)
         THEN <<Head(sorted)>> \o InsertDescBefore(Tail(sorted), e)
         ELSE <<e>> \o sorted

\* Array.prototype.sort with (a, b) => (b.score || 0) - (a.score || 0):
\* a stable sort, descending by score.  InsertDesc puts e after every
\* entry that does not compare after it.
RECURSIVE InsertDesc(_, _)
InsertDesc(sorted, e) ==
    IF sorted = <<>> THEN <<e>>
    ELSE IF ScoreOr0(Head(sorted)) >= ScoreOr0(e)
         THEN <<Head(sorted)>> \o InsertDesc(Tail(sorted), e)
         ELSE <<e>> \o sorted

RECURSIVE SortDesc(_)
SortDesc(s) ==
    IF s = <<>> THEN <<>>
    ELSE InsertDesc(SortDesc(SubSeq(s, 1, Len(s) - 1)), s[Len(s)])

\* a store that never cuts the array
KeepAll(s) == s

\* scores.slice(0, 10)
Top10(s) == SubSeq(s, 1, IF Len(s) < TOP_N THEN Len(s) ELSE TOP_N)

\* What localStorage holds under a mode's key: nothing ("absent"), text
\* that is not JSON ("garbage"), the JSON of an array of entries ("array",
\* with the entries), or the JSON of something that is no array, such as
\* {"a":1} ("object").
Arr(items) == [kind |-> "array", items |-> items]
Absent == [kind |-> "absent", items |-> <<>>]
Garbage == [kind |-> "garbage", items |-> <<>>]
ObjectJson == [kind |-> "object", items |-> <<>>]

\* one key for both modes
ScoreKeyShared(mode) == "laugh"

\* mode === 'laugh' ? LAUGH_SCORE_KEY : SHAKE_SCORE_KEY; the store is indexed
\* by the mode whose key it is ("laugh" for scores_laugh, "shake" for
\* scores_shake)
ScoreKey(mode) == IF mode = "laugh" THEN "laugh" ELSE "shake"

\* loadScores(mode): JSON.parse(getItem(key) || "[]"), and [] when that
\* throws.  Whatever parses is returned as it is.
loadScores(st, mode) ==
    IF st[ScoreKey(mode)].kind \in {"absent", "garbage"} THEN Arr(<<>>)
    ELSE st[ScoreKey(mode)]

\* scores.length > 0 ? scores[0].score : 0
PersonalBest(scores) == IF Len(scores) > 0 THEN scores[1].score ELSE 0

\* The array saveScore writes back under the mode's key.
SavedBoard(scores, name, score, ts) ==
    Top10(SortDesc(Append(scores, [name |-> name, score |-> score, ts |-> ts])))

\* saveScore's return value: score > personalBest
IsNewBest(scores, score) == score > PersonalBest(scores)

(* ------------------- the shake frame clock (double) ------------------- *)
\* elapsedTime += 1000 / 60 is a double addition.  A double below 2^14 that
\* is a multiple of 2^-48 is held exactly as three 21-bit limbs:
\* value = (a * 2^42 + b * 2^21 + c) * 2^-48.
LimbBase == 2097152

\* 1000 / 60 as the double 16.666666666666668 = 4691249611844267 * 2^-48
FRAME_INTERVAL == [a |-> 1066, b |-> 1398101, c |-> 699051]

FZero == [a |-> 0, b |-> 0, c |-> 0]

\* ROUND_DURATION as a double, in the same units (10000 * 2^6 in limb a)
FOfMs(ms) == [a |-> ms * 64, b |-> 0, c |-> 0]

\* x >= y on doubles
FGeq(x, y) ==
    \/ x.a > y.a
    \/ x.a = y.a /\ x.b > y.b
    \/ x.a = y.a /\ x.b = y.b /\ x.c >= y.c

\* limb-wise sum with carries, no rounding
FNorm(a, b, c) ==
    LET b1 == b + (c \div LimbBase)
    IN  [a |-> a + (b1 \div LimbBase), b |-> b1 % LimbBase, c |-> c % LimbBase]

RECURSIVE Pow2Floor(_)
\* the largest power of two that is <= n (n >= 1)
Pow2Floor(n) == IF n < 2 THEN 1 ELSE 2 * Pow2Floor(n \div 2)

\* addition in exact arithmetic, no rounding
FAddExact(x, y) == FNorm(x.a + y.a, x.b + y.b, x.c + y.c)

\* Round to nearest, ties to even, of an exact sum e: e keeps its 53
\* leading bits.  With the top bit in limb a at position
\* 42 + log2(Pow2Floor(a)), the unit in the last place is
\* g = Pow2Floor(a) / 1024 (in units of 2^-48), which lies inside limb c.
FRound(e) ==
    IF e.a < 2048 THEN e
    ELSE LET g  == Pow2Floor(e.a) \div 1024
             r  == e.c % g
             c0 == e.c - r
             up == \/ 2 * r > g
                   \/ 2 * r = g /\ (c0 \div g) % 2 = 1
         IN  FNorm(e.a, e.b, IF up THEN c0 + g ELSE c0)

\* IEEE-754 addition: the exact sum, rounded
FAdd(x, y) ==
    CHOOSE s \in { FRound(e) : e \in {FNorm(x.a + y.a, x.b + y.b, x.c + y.c)} } : TRUE

(* ------------------------------ state --------------------------------- *)
VARIABLES
    \* --- environment, fixed for the page's lifetime
    page,             \* which page is open: "laugh" or "shake"
    secure,           \* core.isSecureContext()
    needsPermission,  \* DeviceMotionEvent.requestPermission is a function
    \* --- localStorage
    store,            \* mode -> stored value (scores_laugh, scores_shake)
    storedName,       \* playerName key
    clock,            \* Date.now(), advanced by every save
    lastSave,         \* the last saveScore call: its arguments, what it
                      \* found stored and what it returned
    \* --- DOM
    btn,              \* start/stop/again -> enabled (not disabled)
    status,           \* #status-text: [text, level]
    nameStatus,       \* #name-status text
    alertShown,       \* the insecure-context alert was raised
    meter,            \* meter name -> displayed value
    stopHandler,      \* round whose stopRound #stop-btn.onclick calls, 0 = unset
    \* --- both modes
    isRoundRunning,   \* mode -> BOOLEAN (each module's isRoundRunning)
    nRounds,          \* rounds started so far (round ids are 1..nRounds)
    phase,            \* round -> where its start/round sequence stands
    playerName,       \* round -> the playerName its closures hold
    \* --- laugh module
    audioClassifier,  \* "none", or the URL the model was created from
    audioContext,     \* 0 = null, else the round that created the context
    analyserNode,     \* 0 = null, else the round whose meter analyser it is
    scriptProcessorNode, \* 0 = null, else the round whose processor it is
    rafId,            \* 0, or the round whose meter frame is pending
    baselineRMS,      \* [sum, count]: the mean rmsSum / rmsCount
    emaLaughProb,     \* percent
    openContexts,     \* audio contexts created and not closed
    micStreams,       \* getUserMedia streams obtained (no code stops them)
    lr,               \* round -> locals of startLaughRound
    \* --- shake module
    motionDataAvailable,
    lastTimestamp,
    integratedAccEnergy,  \* (m/s^2)^2 * ms
    integratedRotEnergy,  \* (rad/s)^2 * ms
    liveAcceleration,     \* m/s^2
    liveRotation,         \* degrees/s
    gameLoopId,       \* 0, or the round whose frame timeout was set last
    frameTimers,      \* rounds with a pending gameLoop timeout
    motionListener,   \* onDeviceMotion is registered on window
    warnTimers,       \* rounds whose 2000 ms no-motion timeout is pending
    sr,               \* round -> locals of startShakeRound
    nMotionEvents,    \* devicemotion events delivered to the current round
    \* --- observation (history) variables
    finalized,        \* round -> the saveScore calls its stopRound made
    stopInStart,      \* the round, still in its start sequence, during
                      \* which Stop was clicked (0: none)
    nameRead,         \* the text the last Save Name click read from
                      \* #name-input
    \* --- the audio round's working data, followed only where the
    \* --- specification is about them
    ringBuffer,       \* startLaughRound's ringBuffer: index -> sample
    ringBufferIndex,  \* its write cursor (0-based, as in the code)
    nSamples,         \* samples the audio callbacks have delivered so far
                      \* (sample k carries the value k)
    tickLog           \* the classifier answers and RMS readings of the
                      \* ticks applied so far

envVars   == <<page, secure, needsPermission>>
storeVars == <<store, storedName, clock, lastSave>>
domVars   == <<btn, status, nameStatus, alertShown, meter, stopHandler>>
roundVars == <<isRoundRunning, nRounds, phase, playerName>>
laughVars == <<audioClassifier, audioContext, analyserNode, scriptProcessorNode,
               rafId, baselineRMS, emaLaughProb, openContexts, micStreams, lr>>
shakeVars == <<motionDataAvailable, lastTimestamp, integratedAccEnergy,
               integratedRotEnergy, liveAcceleration, liveRotation, gameLoopId,
               frameTimers, motionListener, warnTimers, sr, nMotionEvents>>
histVars  == <<finalized, stopInStart>>
auxVars   == <<ringBuffer, ringBufferIndex, nSamples, tickLog>>
vars == <<envVars, storeVars, domVars, roundVars, laughVars, shakeVars, histVars,
          nameRead, auxVars>>

(* ------------------------------ helpers ------------------------------- *)
\* ui.setButtonStates({ start, stop, again })
Btn(s, t, a) == [start |-> s, stop |-> t, again |-> a]

\* ui.setStatus(text, level)
St(text, level) == [text |-> text, level |-> level]

\* core.clamp(value, min, max)
clamp(value, min, max) ==
    LET lo == IF value < max THEN value ELSE max
    IN  IF lo > min THEN lo ELSE min

\* Math.round of the rational n / d (d > 0): floor(n / d + 1/2)
RoundDiv(n, d) == (2 * n + d) \div (2 * d)

RECURSIVE Gcd(_, _)
Gcd(x, y) == IF y = 0 THEN x ELSE Gcd(y, x % y)

\* the number sum / count, as a fraction in lowest terms
Mean(sum, count) ==
    LET g == Gcd(sum, count) IN [sum |-> sum \div g, count |-> count \div g]

\* the locals of one startLaughRound call; nLaugh and nLoud count the ticks
\* the bounds MaxLaughTicks and MaxLoudTicks limit, nErr the round's
\* "Classification error" lines in the debug log
LrInit ==
    [rmsSum |-> 0, rmsCount |-> 0, laughProbSum |-> 0, frameCount |-> 0,
     loudPenalty |-> 0, streak |-> 0, streakBonus |-> 0, elapsedTime |-> 0,
     gameLoop |-> FALSE, nLaugh |-> 0, nLoud |-> 0, nErr |-> 0]

\* the locals of one startShakeRound call; frames counts the gameLoop calls
SrInit == [elapsedTime |-> FZero, frames |-> 0]

MeterInit == [rms |-> 0, laugh |-> 0, joy |-> 0, acc |-> 0, rot |-> 0, shake |-> 0]

NoName == <<>>

\* new Float32Array(16000), scaled to three samples
RING_LEN == 3
\* the ring buffer and the logs at the start of a round
AuxInit ==
    /\ ringBuffer = [i \in 0..(RING_LEN - 1) |-> 0]
    /\ ringBufferIndex = 0
    /\ nSamples = 0
    /\ tickLog = <<>>

\* no saveScore call yet
NoSave ==
    [mode |-> "none", name |-> NoName, score |-> 0, best |-> FALSE,
     wasEmpty |-> TRUE, prevTop |-> 0, found |-> "absent", threw |-> FALSE]

(* ------------------------------- Init --------------------------------- *)
\* The state after the page's script has run (initLaughPage or
\* initShakePage): nothing started, Start enabled.  secure matters to the
\* laugh page only and needsPermission to the shake page only.
InitPage ==
    /\ page \in Modes
    /\ secure \in (IF page = "laugh" THEN BOOLEAN ELSE {TRUE})
    /\ needsPermission \in (IF page = "shake" THEN BOOLEAN ELSE {FALSE})
    /\ storedName = NoName
    /\ clock = 0
    /\ lastSave = NoSave
    /\ btn = Btn(TRUE, FALSE, FALSE)
    /\ status = St("", "muted")
    /\ nameStatus = ""
    /\ alertShown = FALSE
    /\ meter = MeterInit
    /\ stopHandler = 0
    /\ isRoundRunning = [m \in Modes |-> FALSE]
    /\ nRounds = 0
    /\ phase = [r \in Rounds |-> "none"]
    /\ playerName = [r \in Rounds |-> NoName]
    /\ audioClassifier = "none"
    /\ audioContext = 0
    /\ analyserNode = 0
    /\ scriptProcessorNode = 0
    /\ rafId = 0
    /\ baselineRMS = [sum |-> 0, count |-> 1]
    /\ emaLaughProb = 0
    /\ openContexts = {}
    /\ micStreams = {}
    /\ lr = [r \in Rounds |-> LrInit]
    /\ motionDataAvailable = FALSE
    /\ lastTimestamp = 0
    /\ integratedAccEnergy = 0
    /\ integratedRotEnergy = 0
    /\ liveAcceleration = 0
    /\ liveRotation = 0
    /\ gameLoopId = 0
    /\ frameTimers = {}
    /\ motionListener = FALSE
    /\ warnTimers = {}
    /\ sr = [r \in Rounds |-> SrInit]
    /\ nMotionEvents = 0
    /\ finalized = [r \in Rounds |-> <<>>]
    /\ stopInStart = 0
    /\ nameRead = NoName
    /\ AuxInit

\* a first visit: localStorage holds no leaderboard
Init ==
    /\ InitPage
    /\ store = [m \in Modes |-> Absent]

(* --------------------------- shared handlers -------------------------- *)
\* saveNameBtn.onclick (the same code on both pages); n is the field's text
SaveNameClick(n) ==
    LET name == sanitizeName(n) IN
    /\ storedName' = IF name # NoName THEN name ELSE storedName
    /\ nameStatus' = IF name # NoName THEN "saved" ELSE "invalid"
    /\ nameRead' = n
    /\ UNCHANGED <<envVars, auxVars, store, clock, lastSave, btn, status, alertShown,
                   meter, stopHandler, roundVars, laughVars, shakeVars, histVars>>

\* The stop click's observation: the round, if any, that is still in its
\* start sequence when Stop is clicked.
StartingRounds == { r \in Rounds : phase[r] \in {"classifier", "mic", "calib", "perm"} }

NoteStopClick ==
    stopInStart' = IF StartingRounds # {}
                   THEN CHOOSE r \in StartingRounds : \A q \in StartingRounds : q <= r
                   ELSE stopInStart

(* ------------------------------ laugh page ---------------------------- *)
\* cleanupAudio(): every assignment it makes
cleanupAudio ==
    /\ isRoundRunning' = [isRoundRunning EXCEPT !["laugh"] = FALSE]
    /\ rafId' = 0
    /\ scriptProcessorNode' = 0
    /\ analyserNode' = 0
    /\ openContexts' = openContexts \ {audioContext}
    /\ audioContext' = 0

\* what cleanupAudio leaves alone among the laugh module's variables
cleanupAudioKeeps == <<audioClassifier, baselineRMS, emaLaughProb, micStreams>>

\* ensureClassifier(): the URL the model ends up created from, or "failed".
\* net says which of the six network loads succeed.
NetOutcomes ==
    [importJ : BOOLEAN, importU : BOOLEAN, filesetJ : BOOLEAN,
     filesetU : BOOLEAN, primary : BOOLEAN, fallback : BOOLEAN]

\* the two model URLs tried in the other order
ensureClassifierSwapped(loaded, net) ==
    IF loaded # "none" THEN loaded
    ELSE IF ~(net.importJ \/ net.importU) THEN "failed"
    ELSE IF ~(net.filesetJ \/ net.filesetU) THEN "failed"
    ELSE IF net.fallback THEN "fallback"
    ELSE IF net.primary THEN "primary"
    ELSE "failed"

ensureClassifier(loaded, net) ==
    IF loaded # "none" THEN loaded
    ELSE IF ~(net.importJ \/ net.importU) THEN "failed"
    ELSE IF ~(net.filesetJ \/ net.filesetU) THEN "failed"
    ELSE IF net.primary THEN "primary"
    ELSE IF net.fallback THEN "fallback"
    ELSE "failed"

\* startBtn.onclick's catch block, for the startLaughRound call of round r
LaughAbort(r) ==
    /\ status' = St("start_error", "bad")
    /\ btn' = Btn(TRUE, FALSE, FALSE)
    /\ cleanupAudio
    /\ phase' = [phase EXCEPT ![r] = "aborted"]
    /\ stopInStart' = 0

\* startBtn.onclick past its two checks, up to startLaughRound's first
\* await: the buttons, cleanupAudio() and the synchronous head of
\* ensureClassifier()
LaughStartRound(n) ==
    /\ nRounds < MaxRounds
    /\ nRounds' = nRounds + 1
    /\ btn' = Btn(FALSE, TRUE, FALSE)
    /\ cleanupAudio
    /\ phase' = [phase EXCEPT ![nRounds + 1] = "classifier"]
    /\ playerName' = [playerName EXCEPT ![nRounds + 1] = sanitizeName(n)]
    /\ status' = IF audioClassifier = "none"
                 THEN St("loading_model", "warn") ELSE status
    /\ stopInStart' = 0
    /\ UNCHANGED <<envVars, nameRead, auxVars, storeVars, nameStatus, alertShown, meter,
                   stopHandler, cleanupAudioKeeps, lr, shakeVars, finalized>>

\* a handler that starts without its two checks
LaughStartUnchecked(n) ==
    /\ page = "laugh"
    /\ LaughStartRound(n)

\* startBtn.onclick of the laugh page: the secure-context check, the name
\* check, then the start
LaughStartHandler(n) ==
    /\ page = "laugh"
    /\ IF ~secure
       THEN /\ alertShown' = TRUE
            /\ UNCHANGED <<envVars, nameRead, auxVars, storeVars, btn, status, nameStatus, meter,
                           stopHandler, roundVars, laughVars, shakeVars, histVars>>
       ELSE IF sanitizeName(n) = NoName
       THEN /\ nameStatus' = "please_save"
            /\ UNCHANGED <<envVars, nameRead, auxVars, storeVars, btn, status, alertShown, meter,
                           stopHandler, roundVars, laughVars, shakeVars, histVars>>
       ELSE LaughStartRound(n)

\* a click on the enabled Start button
LaughStartClick(n) == btn.start /\ LaughStartHandler(n)

\* ensureClassifier() settles: the model is there (line 123 follows), or
\* the rejection reaches startBtn.onclick's catch.
LaughClassifierSettle(r, net) ==
    /\ phase[r] = "classifier"
    /\ LET got == ensureClassifier(audioClassifier, net) IN
       IF got = "failed"
       THEN /\ LaughAbort(r)
            /\ UNCHANGED <<envVars, nameRead, auxVars, storeVars, nameStatus, alertShown, meter,
                           stopHandler, nRounds, playerName, cleanupAudioKeeps,
                           lr, shakeVars, finalized>>
       ELSE /\ audioClassifier' = got
            /\ status' = St("requesting_mic", "warn")
            /\ phase' = [phase EXCEPT ![r] = "mic"]
            /\ UNCHANGED <<envVars, nameRead, auxVars, storeVars, btn, nameStatus, alertShown, meter,
                           stopHandler, isRoundRunning, nRounds, playerName,
                           audioContext, analyserNode, scriptProcessorNode, rafId,
                           baselineRMS, emaLaughProb, openContexts, micStreams, lr,
                           shakeVars, histVars>>

\* what the calibration loop's first test finds when calibEndTime has
\* already passed (the page was frozen for the 2000 ms after line 139)
NoSample == -1

\* getUserMedia() settles.  Granted: the context is created and the
\* calibration loop takes its first sample (rms) before its first sleep,
\* or none (NoSample) where its first test fails.
LaughMicSettle(r, granted, rms) ==
    /\ phase[r] = "mic"
    /\ IF ~granted
       THEN /\ LaughAbort(r)
            /\ UNCHANGED <<envVars, nameRead, auxVars, storeVars, nameStatus, alertShown, meter,
                           stopHandler, nRounds, playerName, cleanupAudioKeeps,
                           lr, shakeVars, finalized>>
       ELSE /\ micStreams' = micStreams \cup {r}
            /\ audioContext' = r
            /\ openContexts' = openContexts \cup {r}
            /\ status' = St("calibrating", "warn")
            /\ lr' = IF rms = NoSample THEN lr
                     ELSE [lr EXCEPT ![r].rmsSum = rms, ![r].rmsCount = 1]
            /\ phase' = [phase EXCEPT ![r] = "calib"]
            /\ UNCHANGED <<envVars, nameRead, auxVars, storeVars, btn, nameStatus, alertShown, meter,
                           stopHandler, isRoundRunning, nRounds, playerName,
                           audioClassifier, analyserNode, scriptProcessorNode, rafId,
                           baselineRMS, emaLaughProb, shakeVars, histVars>>

\* a calibration loop that keeps the baseline up to date as it goes
LaughCalibSampleLive(r, rms) ==
    /\ phase[r] = "calib"
    /\ lr[r].rmsCount > 0
    /\ lr[r].rmsCount < MaxCalibSamples
    /\ lr' = [lr EXCEPT ![r].rmsSum = @ + rms, ![r].rmsCount = @ + 1]
    /\ baselineRMS' = Mean(lr[r].rmsSum + rms, lr[r].rmsCount + 1)
    /\ UNCHANGED <<envVars, nameRead, auxVars, storeVars, domVars, roundVars, audioClassifier,
                   audioContext, analyserNode, scriptProcessorNode, rafId,
                   emaLaughProb, openContexts, micStreams,
                   shakeVars, histVars>>

\* one more turn of the calibration loop: the 50 ms sleep is over and
\* performance.now() is still before calibEndTime
LaughCalibSample(r, rms) ==
    /\ phase[r] = "calib"
    /\ lr[r].rmsCount > 0
    /\ lr[r].rmsCount < MaxCalibSamples
    /\ lr' = [lr EXCEPT ![r].rmsSum = @ + rms, ![r].rmsCount = @ + 1]
    /\ UNCHANGED <<envVars, nameRead, auxVars, storeVars, domVars, roundVars, audioClassifier,
                   audioContext, analyserNode, scriptProcessorNode, rafId,
                   baselineRMS, emaLaughProb, openContexts, micStreams,
                   shakeVars, histVars>>

\* a baseline of 0 where no sample was taken
BaselineZero(rmsSum, rmsCount) ==
    IF rmsCount > 0 THEN Mean(rmsSum, rmsCount) ELSE [sum |-> 0, count |-> 1]

\* baselineRMS = rmsCount > 0 ? rmsSum / rmsCount : 0.01
Baseline(rmsSum, rmsCount) ==
    IF rmsCount > 0 THEN Mean(rmsSum, rmsCount) ELSE [sum |-> 10, count |-> 1]

\* The calibration loop ends and lines 148-256 run: the baseline, the RMS
\* meter (its first updateMeter shows rms), the script processor, the round
\* flag, the tick interval and the Stop handler.  With audioContext null
\* startRmsMeter throws and the catch block runs.
LaughCalibDone(r, rms) ==
    /\ phase[r] = "calib"
    /\ baselineRMS' = Baseline(lr[r].rmsSum, lr[r].rmsCount)
    /\ IF audioContext = 0
       THEN /\ LaughAbort(r)
            /\ UNCHANGED <<envVars, nameRead, auxVars, storeVars, nameStatus, alertShown, meter,
                           stopHandler, nRounds, playerName, audioClassifier,
                           emaLaughProb, micStreams, lr, shakeVars, finalized>>
       ELSE /\ analyserNode' = r
            /\ meter' = [meter EXCEPT !.rms = rms]
            /\ rafId' = r
            /\ scriptProcessorNode' = r
            /\ isRoundRunning' = [isRoundRunning EXCEPT !["laugh"] = TRUE]
            /\ status' = St("go", "ok")
            /\ emaLaughProb' = 0
            /\ lr' = [lr EXCEPT ![r] = [LrInit EXCEPT !.gameLoop = TRUE]]
            /\ stopHandler' = r
            /\ phase' = [phase EXCEPT ![r] = "active"]
            /\ stopInStart' = 0
            /\ UNCHANGED <<envVars, nameRead, auxVars, storeVars, btn, nameStatus, alertShown,
                           nRounds, playerName, audioClassifier, audioContext,
                           openContexts, micStreams, shakeVars, finalized>>

\* the requestAnimationFrame callback of startRmsMeter: show rms, reschedule
LaughMeterFrame(rms) ==
    /\ rafId # 0
    /\ IF analyserNode = 0
       THEN rafId' = 0 /\ UNCHANGED meter
       ELSE meter' = [meter EXCEPT !.rms = rms] /\ UNCHANGED rafId
    /\ UNCHANGED <<envVars, nameRead, auxVars, storeVars, btn, status, nameStatus, alertShown,
                   stopHandler, roundVars, audioClassifier, audioContext,
                   analyserNode, scriptProcessorNode, baselineRMS, emaLaughProb,
                   openContexts, micStreams, lr, shakeVars, histVars>>

(* ---------------------------- laugh scoring --------------------------- *)
\* what the classifier may return on a tick: it throws (err), or the
\* laughter categories' scores add up to p hundredths (before the clamp)
PInputs == {0, 100}
TickInputs ==
    {[err |-> TRUE, p |-> 0]} \cup {[err |-> FALSE, p |-> v] : v \in PInputs}
\* RMS readings of the analyser, in thousandths
RmsInputs == {10, 200}
\* RMS readings during calibration, in thousandths
CalibInputs == {10}

\* a tick that takes a classifier error for certain laughter
TickPStale(c) == IF c.err THEN 100 ELSE clamp(c.p, 0, 100)

\* the tick's laughter probability: 0 after a classifier error, else the
\* categories' sum clamped to [0, 1]
TickP(c) == IF c.err THEN 0 ELSE clamp(c.p, 0, 100)

\* the excess over the threshold taken whole
LoudStepUncapped(rms, base) ==
    LET over == rms * base.count - base.sum - 100 * base.count
    IN  IF over > 0 THEN over ELSE 0

\* currentRMS > loudThreshold ? Math.min(0.03, currentRMS - loudThreshold) : 0
\* with loudThreshold = baselineRMS + 0.10, in units of 1 / (1000 * base.count)
LoudStep(rms, base) ==
    LET over == rms * base.count - base.sum - 100 * base.count
        cap  == 30 * base.count
    IN  IF over > 0 THEN (IF cap < over THEN cap ELSE over) ELSE 0

\* a score read off the smoothed laughter meter
JoyRankShown(l, base) == emaLaughProb

\* the score without Math.max(0, .)
JoyRankRaw(l, base) ==
    RoundDiv(l.laughProbSum * 1000 * base.count
                 - 15 * l.loudPenalty * l.frameCount
                 + 2 * l.streakBonus * (1000 * base.count * l.frameCount),
             1000 * base.count * l.frameCount)

\* Math.round(Math.max(0, 100 * (laughProbSum / frameCount)
\*                        - 15 * loudPenalty + 2 * streakBonus))
JoyRank(l, base) ==
    LET d == 1000 * base.count * l.frameCount
        n == l.laughProbSum * 1000 * base.count
             - 15 * l.loudPenalty * l.frameCount
             + 2 * l.streakBonus * d
    IN  IF n <= 0 THEN 0 ELSE RoundDiv(n, d)

\* a streak that a miss does not reset
TickLocalsKept(l, c, rms, base) ==
    LET p    == TickP(c)
        step == LoudStep(rms, base)
        st   == IF p >= 60 THEN l.streak + 1 ELSE l.streak
    IN  [l EXCEPT !.loudPenalty = @ + step,
                  !.streak = st,
                  !.streakBonus = IF p >= 60 /\ st > 0 /\ st % 4 = 0 THEN @ + 1 ELSE @,
                  !.laughProbSum = @ + p,
                  !.frameCount = @ + 1,
                  !.nLaugh = IF p > 0 THEN @ + 1 ELSE @,
                  !.nLoud = IF step > 0 THEN @ + 1 ELSE @,
                  !.nErr = IF c.err THEN @ + 1 ELSE @]

\* the locals after lines 182-219 of a tick with classifier answer c and
\* RMS rms
TickLocals(l, c, rms, base) ==
    LET p    == TickP(c)
        step == LoudStep(rms, base)
        st   == IF p >= 60 THEN l.streak + 1 ELSE 0
    IN  [l EXCEPT !.loudPenalty = @ + step,
                  !.streak = st,
                  !.streakBonus = IF p >= 60 /\ st > 0 /\ st % 4 = 0 THEN @ + 1 ELSE @,
                  !.laughProbSum = @ + p,
                  !.frameCount = @ + 1,
                  !.nLaugh = IF p > 0 THEN @ + 1 ELSE @,
                  !.nLoud = IF step > 0 THEN @ + 1 ELSE @,
                  !.nErr = IF c.err THEN @ + 1 ELSE @]

\* EMA_ALPHA * (p * 100) + (1 - EMA_ALPHA) * emaLaughProb, kept to whole
\* percent (the code keeps a double and shows one decimal)
Ema(p, ema) == (2 * p + 8 * ema) \div 10

(* --------------------------- finishing a round ------------------------ *)
\* core.saveScore(mode, name, score); Date.now() is clock + 1.  Where
\* loadScores returned no array, scores.push is no function: the call
\* throws a TypeError before anything is written.
saveScore(mode, name, score) ==
    LET scores == loadScores(store, mode)
        throws == scores.kind # "array"
    IN  /\ store' = IF throws THEN store
                    ELSE [store EXCEPT
                            ![ScoreKey(mode)] = Arr(SavedBoard(scores.items, name, score,
                                                               clock + 1))]
        /\ clock' = clock + 1
        /\ lastSave' = [mode |-> mode, name |-> name, score |-> score,
                        best |-> ~throws /\ IsNewBest(scores.items, score),
                        wasEmpty |-> scores = Arr(<<>>),
                        prevTop |-> PersonalBest(scores.items),
                        found |-> store[mode].kind,
                        threw |-> throws]

\* a Stop that saves the live score
StopScoreLive(live) == live

\* the score #stop-btn.onclick passes: stopRound(playerName, 0), whatever
\* the live score shown is
StopScore(live) == 0

\* a stopRound without its guard
StopRoundUnguarded(mode) == TRUE

\* stopRound's first line: if (!isRoundRunning) return;
StopRoundRuns(mode) == isRoundRunning[mode]

\* what stopRound reports after saving
FinishStatus(mode, score) ==
    IF /\ loadScores(store, mode).kind = "array"
       /\ IsNewBest(loadScores(store, mode).items, score)
    THEN St("new_best", "ok") ELSE St("finished", "ok")

\* the record kept of one saveScore call made by a round's stopRound; ticks
\* is the number of gameLoop runs and elapsed the closure's elapsedTime (as
\* a double) at a natural end; both are 0 for a manual stop
Final(name, score, via, ticks, elapsed) ==
    [name |-> name, score |-> score, via |-> via, ticks |-> ticks,
     elapsed |-> elapsed]

\* startLaughRound's stopRound(name, finalScore) past its guard, called by
\* round r's closure.  Its interval is cleared, so nothing reads the
\* round's locals again: they are dropped.
LaughStopRound(r, name, finalScore, via, ticks, elapsed) ==
    /\ cleanupAudio
    /\ lr' = [lr EXCEPT ![r] = LrInit]
    /\ btn' = Btn(FALSE, FALSE, TRUE)
    /\ saveScore("laugh", name, finalScore)
    /\ status' = FinishStatus("laugh", finalScore)
    /\ phase' = [phase EXCEPT ![r] = "finished"]
    /\ finalized' = [finalized EXCEPT
                       ![r] = Append(@, Final(name, finalScore, via, ticks, elapsed))]

\* the setInterval callback of round r (gameLoop), with the classifier's
\* answer c and the analyser's reading rms
LaughTick(r, c, rms) ==
    /\ lr[r].gameLoop
    /\ IF ~isRoundRunning["laugh"]
       THEN UNCHANGED vars
       ELSE LET p    == TickP(c)
                nl   == TickLocals(lr[r], c, rms, baselineRMS)
                ema  == Ema(p, emaLaughProb)
                joyRank == JoyRank(nl, baselineRMS)
                el   == lr[r].elapsedTime + TICK_INTERVAL
            IN  /\ nl.nLaugh <= MaxLaughTicks
                /\ nl.nLoud <= MaxLoudTicks
                /\ nl.nErr <= MaxErrTicks
                /\ emaLaughProb' = ema
                /\ meter' = [meter EXCEPT !.laugh = ema, !.joy = joyRank]
                /\ IF el >= ROUND_DURATION /\ StopRoundRuns("laugh")
                   THEN /\ LaughStopRound(r, playerName[r], joyRank, "natural",
                                          nl.frameCount, FOfMs(el))
                        /\ UNCHANGED <<envVars, nameRead, auxVars, storedName, nameStatus, alertShown,
                                       stopHandler, nRounds, playerName,
                                       audioClassifier, baselineRMS, micStreams,
                                       shakeVars, stopInStart>>
                   ELSE /\ lr' = [lr EXCEPT ![r] = [nl EXCEPT !.elapsedTime = el]]
                        /\ UNCHANGED <<envVars, nameRead, auxVars, storeVars, btn, status, nameStatus,
                                       alertShown, stopHandler, roundVars,
                                       audioClassifier, audioContext, analyserNode,
                                       scriptProcessorNode, rafId, baselineRMS,
                                       openContexts, micStreams, shakeVars, histVars>>

\* #stop-btn.onclick on the laugh page: stopRound(playerName, 0) of the
\* round that assigned the handler last, if any did
LaughStopHandler ==
    /\ page = "laugh"
    /\ NoteStopClick
    /\ IF stopHandler # 0 /\ StopRoundRuns("laugh")
       THEN /\ LaughStopRound(stopHandler, playerName[stopHandler],
                              StopScore(meter.joy), "stop", 0, FZero)
            /\ UNCHANGED <<envVars, nameRead, auxVars, storedName, nameStatus, alertShown, meter,
                           stopHandler, nRounds, playerName, cleanupAudioKeeps,
                           shakeVars>>
       ELSE UNCHANGED <<envVars, nameRead, auxVars, storeVars, domVars, roundVars, laughVars,
                        shakeVars, finalized>>

\* a click on the enabled Stop button
LaughStopClick == btn.stop /\ LaughStopHandler

\* #again-btn.onclick on the laugh page
LaughAgainClick ==
    /\ page = "laugh"
    /\ btn.again
    /\ status' = St("ready", "muted")
    /\ btn' = Btn(TRUE, FALSE, FALSE)
    /\ meter' = [meter EXCEPT !.rms = 0, !.laugh = 0, !.joy = 0]
    /\ UNCHANGED <<envVars, nameRead, auxVars, storeVars, nameStatus, alertShown, stopHandler,
                   roundVars, laughVars, shakeVars, histVars>>

(* ------------------------------ shake page ---------------------------- *)
\* devicemotion events: the magnitude of the linear acceleration (m/s^2),
\* of the rotation rate (degrees/s) and the latter's square in (rad/s)^2
\* (57 degrees/s is 1 rad/s to the meter's precision)
MotionInputs ==
    { [acc |-> 10, rotDeg |-> 57, rotRadSq |-> 1] }
\* milliseconds between one event's timeStamp and the next one's (the
\* same stamp again, 100 ms, 0.25 s, 2 s, a stamp 100 ms back)
Gaps == {0, 100, 250, 2000, -100}
\* timeStamp of a round's first event
FirstStamp == 1000
\* the substitute dt, 0.016 s, in ms
NOMINAL_DT == 16
\* the largest dt taken as measured, 0.25 s, in ms
MAX_DT == 250

\* the raw difference taken as it comes
MotionDtRaw(last, now) == now - last

\* a dt above the limit cut down to the limit
MotionDtClamped(last, now) ==
    LET dt == IF last # 0 THEN now - last ELSE NOMINAL_DT
    IN  IF dt <= 0 THEN NOMINAL_DT ELSE IF dt > MAX_DT THEN MAX_DT ELSE dt

\* let dt = lastTimestamp ? (now - lastTimestamp) / 1000 : 0.016;
\* if (dt <= 0 || dt > 0.25) dt = 0.016;      (in ms)
MotionDt(last, now) ==
    LET dt == IF last # 0 THEN now - last ELSE NOMINAL_DT
    IN  IF dt <= 0 \/ dt > MAX_DT THEN NOMINAL_DT ELSE dt

\* Math.round(6 * integratedAccEnergy + 2 * integratedRotEnergy), the
\* energies being held in units of 1/1000
ShakeRank(accE, rotE) == RoundDiv(6 * accE + 2 * rotE, 1000)

\* cleanupMotion(), with `timers` the frame timeouts pending when it runs
cleanupMotionOn(timers) ==
    /\ isRoundRunning' = [isRoundRunning EXCEPT !["shake"] = FALSE]
    /\ motionListener' = FALSE
    /\ frameTimers' = IF gameLoopId # 0 THEN timers \ {gameLoopId} ELSE timers

cleanupMotion == cleanupMotionOn(frameTimers)

\* startBtn.onclick's catch block on the shake page
ShakeAbort(r) ==
    /\ status' = St("start_error", "bad")
    /\ btn' = Btn(TRUE, FALSE, FALSE)
    /\ cleanupMotion
    /\ phase' = [phase EXCEPT ![r] = "aborted"]
    /\ stopInStart' = 0

\* startShakeRound from "Reset State & Start" to its end (lines 401-459),
\* the first gameLoop() call included; `timers` as for cleanupMotionOn
ShakeBegin(r, timers) ==
    /\ isRoundRunning' = [isRoundRunning EXCEPT !["shake"] = TRUE]
    /\ motionDataAvailable' = FALSE
    /\ lastTimestamp' = 0
    /\ integratedAccEnergy' = 0
    /\ integratedRotEnergy' = 0
    /\ liveAcceleration' = 0
    /\ liveRotation' = 0
    /\ nMotionEvents' = 0
    /\ motionListener' = TRUE
    /\ warnTimers' = warnTimers \cup {r}
    /\ status' = St("go", "ok")
    /\ meter' = [meter EXCEPT !.acc = 0, !.rot = 0, !.shake = ShakeRank(0, 0)]
    /\ sr' = [sr EXCEPT ![r] = [elapsedTime |-> FAdd(FZero, FRAME_INTERVAL),
                                frames |-> 1]]
    /\ frameTimers' = timers \cup {r}
    /\ gameLoopId' = r
    /\ stopHandler' = r
    /\ phase' = [phase EXCEPT ![r] = "active"]
    /\ stopInStart' = 0

\* startBtn.onclick of the shake page up to startShakeRound's first await,
\* or to its end where no permission has to be asked for
ShakeStartHandler(n) ==
    /\ page = "shake"
    /\ IF sanitizeName(n) = NoName
       THEN /\ nameStatus' = "please_save"
            /\ UNCHANGED <<envVars, nameRead, auxVars, storeVars, btn, status, alertShown, meter,
                           stopHandler, roundVars, laughVars, shakeVars, histVars>>
       ELSE /\ nRounds < MaxRounds
            /\ nRounds' = nRounds + 1
            /\ btn' = Btn(FALSE, TRUE, FALSE)
            /\ playerName' = [playerName EXCEPT ![nRounds + 1] = sanitizeName(n)]
            /\ stopInStart' = 0
            /\ IF needsPermission
               THEN /\ cleanupMotion
                    /\ status' = St("requesting_motion", "warn")
                    /\ phase' = [phase EXCEPT ![nRounds + 1] = "perm"]
                    /\ UNCHANGED <<meter, stopHandler, motionDataAvailable,
                                   lastTimestamp, integratedAccEnergy,
                                   integratedRotEnergy, liveAcceleration,
                                   liveRotation, gameLoopId, warnTimers, sr,
                                   nMotionEvents>>
               ELSE ShakeBegin(nRounds + 1,
                               IF gameLoopId # 0 THEN frameTimers \ {gameLoopId}
                               ELSE frameTimers)
            /\ UNCHANGED <<envVars, nameRead, auxVars, storeVars, nameStatus, alertShown, laughVars,
                           finalized>>

\* a click on the enabled Start button
ShakeStartClick(n) == btn.start /\ ShakeStartHandler(n)

\* DeviceMotionEvent.requestPermission() settles
PermOutcomes == {"granted", "denied", "error"}

ShakePermSettle(r, outcome) ==
    /\ phase[r] = "perm"
    /\ IF outcome = "granted"
       THEN /\ ShakeBegin(r, frameTimers)
            /\ UNCHANGED <<envVars, nameRead, auxVars, storeVars, btn, nameStatus, alertShown,
                           nRounds, playerName, laughVars, finalized>>
       ELSE /\ ShakeAbort(r)
            /\ UNCHANGED <<envVars, nameRead, auxVars, storeVars, nameStatus, alertShown, meter,
                           stopHandler, nRounds, playerName, laughVars,
                           motionDataAvailable, lastTimestamp, integratedAccEnergy,
                           integratedRotEnergy, liveAcceleration, liveRotation,
                           gameLoopId, warnTimers, sr, nMotionEvents, finalized>>

\* onDeviceMotion(event): ev gives the magnitudes, now the event's timeStamp
onDeviceMotion(ev, now) ==
    LET dt == MotionDt(lastTimestamp, now) IN
    /\ motionDataAvailable' = TRUE
    /\ lastTimestamp' = now
    /\ liveAcceleration' = ev.acc
    /\ liveRotation' = ev.rotDeg
    /\ integratedAccEnergy' = integratedAccEnergy + ev.acc * ev.acc * dt
    /\ integratedRotEnergy' = integratedRotEnergy + ev.rotRadSq * dt

\* a devicemotion event reaches the registered listener
MotionEvent(ev, gap) ==
    /\ motionListener
    /\ nMotionEvents < MaxMotionEvents
    /\ nMotionEvents' = nMotionEvents + 1
    /\ onDeviceMotion(ev, IF lastTimestamp = 0 THEN FirstStamp ELSE lastTimestamp + gap)
    /\ UNCHANGED <<envVars, nameRead, auxVars, storeVars, domVars, roundVars, laughVars, gameLoopId,
                   frameTimers, motionListener, warnTimers, sr, histVars>>

\* the 2000 ms timeout set at round start fires
\* a timeout that gives the round up when no motion has been seen
WarnTimeoutAborts(r) ==
    /\ r \in warnTimers
    /\ warnTimers' = warnTimers \ {r}
    /\ IF ~motionDataAvailable /\ isRoundRunning["shake"]
       THEN /\ status' = St("no_motion", "warn")
            /\ isRoundRunning' = [isRoundRunning EXCEPT !["shake"] = FALSE]
       ELSE UNCHANGED <<status, isRoundRunning>>
    /\ UNCHANGED <<envVars, nameRead, auxVars, storeVars, btn, nameStatus, alertShown, meter,
                   stopHandler, nRounds, phase, playerName, laughVars, motionDataAvailable,
                   lastTimestamp, integratedAccEnergy, integratedRotEnergy,
                   liveAcceleration, liveRotation, gameLoopId, frameTimers,
                   motionListener, sr, nMotionEvents, histVars>>

WarnTimeout(r) ==
    /\ r \in warnTimers
    /\ warnTimers' = warnTimers \ {r}
    /\ status' = IF ~motionDataAvailable /\ isRoundRunning["shake"]
                 THEN St("no_motion", "warn") ELSE status
    /\ UNCHANGED <<envVars, nameRead, auxVars, storeVars, btn, nameStatus, alertShown, meter,
                   stopHandler, roundVars, laughVars, motionDataAvailable,
                   lastTimestamp, integratedAccEnergy, integratedRotEnergy,
                   liveAcceleration, liveRotation, gameLoopId, frameTimers,
                   motionListener, sr, nMotionEvents, histVars>>

\* startShakeRound's stopRound(name, finalScore) past its guard
ShakeStopRound(r, name, finalScore, via, ticks, elapsed, timers) ==
    /\ cleanupMotionOn(timers)
    /\ sr' = [sr EXCEPT ![r] = SrInit]
    /\ btn' = Btn(FALSE, FALSE, TRUE)
    /\ saveScore("shake", name, finalScore)
    /\ status' = FinishStatus("shake", finalScore)
    /\ phase' = [phase EXCEPT ![r] = "finished"]
    /\ finalized' = [finalized EXCEPT
                       ![r] = Append(@, Final(name, finalScore, via, ticks, elapsed))]

\* 2000 ms in gameLoop runs: run k + 1 is due k * (1000 / 60) ms after the
\* round's start, so the runs after the 121st are due after any 2000 ms
\* timeout set at or before that start.
WarnFrames == 121

\* Timers fire in the order they fall due.
DueBefore(r) ==
    sr[r].frames >= WarnFrames => \A q \in warnTimers : q > r

\* the gameLoop timeout of round r fires
ShakeFrame(r) ==
    /\ r \in frameTimers
    /\ DueBefore(r)
    /\ IF ~isRoundRunning["shake"]
       THEN /\ frameTimers' = frameTimers \ {r}
            /\ UNCHANGED <<envVars, nameRead, auxVars, storeVars, domVars, roundVars, laughVars,
                           motionDataAvailable, lastTimestamp, integratedAccEnergy,
                           integratedRotEnergy, liveAcceleration, liveRotation,
                           gameLoopId, motionListener, warnTimers, sr,
                           nMotionEvents, histVars>>
       ELSE \E shakeRank \in {ShakeRank(integratedAccEnergy, integratedRotEnergy)},
               el \in {FAdd(sr[r].elapsedTime, FRAME_INTERVAL)} :
                /\ meter' = [meter EXCEPT !.acc = clamp(liveAcceleration * 6, 0, 100),
                                          !.rot = clamp((liveRotation * 4) \div 10, 0, 100),
                                          !.shake = shakeRank]
                /\ IF FGeq(el, FOfMs(ROUND_DURATION)) /\ StopRoundRuns("shake")
                   THEN /\ ShakeStopRound(r, playerName[r], shakeRank, "natural",
                                          sr[r].frames + 1, el, frameTimers \ {r})
                        /\ UNCHANGED gameLoopId
                   ELSE /\ sr' = [sr EXCEPT ![r] = [elapsedTime |-> el,
                                                    frames |-> sr[r].frames + 1]]
                        /\ gameLoopId' = r
                        /\ UNCHANGED <<storeVars, btn, status, isRoundRunning, phase,
                                       frameTimers, motionListener, finalized>>
                /\ UNCHANGED <<envVars, nameRead, auxVars, storedName, nameStatus, alertShown,
                               stopHandler, nRounds, playerName, laughVars,
                               motionDataAvailable, lastTimestamp,
                               integratedAccEnergy, integratedRotEnergy,
                               liveAcceleration, liveRotation, warnTimers,
                               nMotionEvents, stopInStart>>

\* #stop-btn.onclick on the shake page
ShakeStopHandler ==
    /\ page = "shake"
    /\ NoteStopClick
    /\ IF stopHandler # 0 /\ StopRoundRuns("shake")
       THEN /\ ShakeStopRound(stopHandler, playerName[stopHandler],
                              StopScore(meter.shake), "stop", 0, FZero, frameTimers)
            /\ UNCHANGED <<envVars, nameRead, auxVars, storedName, nameStatus, alertShown, meter,
                           stopHandler, nRounds, playerName, laughVars,
                           motionDataAvailable, lastTimestamp, integratedAccEnergy,
                           integratedRotEnergy, liveAcceleration, liveRotation,
                           gameLoopId, warnTimers, nMotionEvents>>
       ELSE UNCHANGED <<envVars, nameRead, auxVars, storeVars, domVars, roundVars, laughVars,
                        shakeVars, finalized>>

\* a click on the enabled Stop button
ShakeStopClick == btn.stop /\ ShakeStopHandler

\* #again-btn.onclick on the shake page
ShakeAgainClick ==
    /\ page = "shake"
    /\ btn.again
    /\ status' = St("ready", "muted")
    /\ btn' = Btn(TRUE, FALSE, FALSE)
    /\ meter' = [meter EXCEPT !.acc = 0, !.rot = 0, !.shake = 0]
    /\ UNCHANGED <<envVars, nameRead, auxVars, storeVars, nameStatus, alertShown, stopHandler,
                   roundVars, laughVars, shakeVars, histVars>>

(* --------------------------- specifications --------------------------- *)
\* the two pages driven through their buttons, timers and sensors
Next ==
    \/ \E n \in NameInputs : LaughStartClick(n)
    \/ \E r \in Rounds, net \in NetOutcomes : LaughClassifierSettle(r, net)
    \/ \E r \in Rounds, g \in BOOLEAN, rms \in CalibInputs : LaughMicSettle(r, g, rms)
    \/ \E r \in Rounds, rms \in CalibInputs : LaughCalibSample(r, rms)
    \/ \E r \in Rounds, rms \in RmsInputs : LaughCalibDone(r, rms)
    \/ \E rms \in RmsInputs : LaughMeterFrame(rms)
    \/ \E r \in Rounds, c \in TickInputs, rms \in RmsInputs : LaughTick(r, c, rms)
    \/ LaughStopClick
    \/ LaughAgainClick
    \/ \E n \in NameInputs : ShakeStartClick(n)
    \/ \E r \in Rounds, o \in PermOutcomes : ShakePermSettle(r, o)
    \/ \E ev \in MotionInputs, g \in Gaps : MotionEvent(ev, g)
    \/ \E r \in Rounds : WarnTimeout(r)
    \/ \E r \in Rounds : ShakeFrame(r)
    \/ ShakeStopClick
    \/ ShakeAgainClick

Spec == Init /\ [][Next]_vars

(* ------------------------- the store on its own ----------------------- *)
\* leaderboards a browser may hold from earlier visits: none, nine entries,
\* ten entries
OldEntry(score) == [name |-> <<"Z","o","e">>, score |-> score, ts |-> 0]
NineBoard == [i \in 1..9 |-> OldEntry(IF i <= 2 THEN 2 ELSE 1)]
FullBoard == [i \in 1..10 |-> OldEntry(IF i <= 2 THEN 2 ELSE 1)]
InitBoards == {<<>>, NineBoard, FullBoard}
\* what a browser may hold under a mode's key
StoredValues == {Arr(b) : b \in InitBoards} \cup {Absent, Garbage, ObjectJson}
\* the scores and the name saved
ScoreInputs == {0, 1, 2, 3}
SaveNames == {<<"A","l">>}

InitStore ==
    /\ InitPage
    /\ page = "laugh"
    /\ secure
    /\ store \in {[m \in Modes |-> v] : v \in StoredValues}

\* a call core.saveScore(mode, name, score)
SaveCall(mode, name, score) ==
    /\ clock < MaxSaves
    /\ saveScore(mode, name, score)
    /\ UNCHANGED <<envVars, nameRead, auxVars, storedName, domVars, roundVars, laughVars,
                   shakeVars, histVars>>

NextStore ==
    \/ \E m \in Modes, n \in SaveNames, v \in ScoreInputs : SaveCall(m, n, v)
    \/ \E n \in NameInputs : SaveNameClick(n)

SpecStore == InitStore /\ [][NextStore]_vars

(* ------------------- the start handler called directly ---------------- *)
\* startBtn.onclick run while the button is disabled and a round is being
\* played (a scripted click, startBtn.onclick() from the console)
LaughStartDirect(n) ==
    /\ ~btn.start
    /\ \E r \in Rounds : phase[r] = "active" /\ lr[r].gameLoop
    /\ isRoundRunning["laugh"]
    /\ LaughStartHandler(n)

InitDirect ==
    /\ Init
    /\ page = "laugh"
    /\ secure

\* a quiet room: no laughter heard, the RMS at the calibration's level
QuietTicks == {[err |-> FALSE, p |-> 0]}
QuietRms == {10}

NextDirect ==
    \/ \E n \in NameInputs : LaughStartClick(n)
    \/ \E n \in NameInputs : LaughStartDirect(n)
    \/ \E r \in Rounds, net \in NetOutcomes : LaughClassifierSettle(r, net)
    \/ \E r \in Rounds, g \in BOOLEAN, rms \in CalibInputs : LaughMicSettle(r, g, rms)
    \/ \E r \in Rounds, rms \in CalibInputs : LaughCalibSample(r, rms)
    \/ \E r \in Rounds, rms \in QuietRms : LaughCalibDone(r, rms)
    \/ \E rms \in QuietRms : LaughMeterFrame(rms)
    \/ \E r \in Rounds, c \in QuietTicks, rms \in QuietRms : LaughTick(r, c, rms)
    \/ LaughStopClick
    \/ LaughAgainClick

SpecDirect == InitDirect /\ [][NextDirect]_vars

(* ---------------------- rounds picked up in play ---------------------- *)
\* n copies of x
Rep(x, n) == [i \in 1..n |-> x]
\* the inputs of one audio tick: the classifier's sum p, the RMS
TickIn(p, rms) == [c |-> [err |-> FALSE, p |-> p], rms |-> rms]

RECURSIVE RunTicks(_, _, _)
\* the locals of a round after the ticks h, from the locals l
RunTicks(l, base, h) ==
    IF h = <<>> THEN l
    ELSE RunTicks([TickLocals(l, Head(h).c, Head(h).rms, base)
                      EXCEPT !.elapsedTime = @ + TICK_INTERVAL],
                  base, Tail(h))

RECURSIVE RunEma(_, _)
\* emaLaughProb after the ticks h
RunEma(ema, h) ==
    IF h = <<>> THEN ema ELSE RunEma(Ema(TickP(Head(h).c), ema), Tail(h))

\* the calibration's result in the rounds picked up: 0.010
PlayBaseline == [sum |-> 10, count |-> 1]

\* what an audio round has heard so far: twelve ticks of certain laughter
\* then eleven silent ones; 37 silent ticks then two too loud ones; 39
\* ticks of laughter; three ticks of laughter
PlayedTicks ==
    { Rep(TickIn(100, 10), 12) \o Rep(TickIn(0, 10), 11),
      Rep(TickIn(0, 10), 37) \o Rep(TickIn(0, 200), 2),
      Rep(TickIn(100, 10), 39),
      Rep(TickIn(100, 10), 3) }

\* what a shake round has integrated so far (energies in 1/1000, the last
\* event's timeStamp): nothing; or one event of 10 m/s^2 and 1 rad/s and
\* 49 events of 1 rad/s at rest, 100 ms after one another
PlayedMotion ==
    { [acc |-> 0, rot |-> 0, last |-> 0, liveAcc |-> 0, liveRot |-> 0],
      [acc |-> 10000, rot |-> 5000, last |-> 6000, liveAcc |-> 0, liveRot |-> 57] }

\* gameLoop runs of the shake rounds picked up, and elapsedTime after
\* them: the double 9966.666666666662
PlayedFrames == 598
PlayedElapsed == [a |-> 637866, b |-> 1398101, c |-> 697856]

\* An audio round after the ticks of PlayedTicks, or a shake round after
\* PlayedFrames frames and the events of PlayedMotion: the first round of
\* a first visit, as player "Al".
InitPlay ==
    /\ page \in Modes
    /\ secure = TRUE
    /\ needsPermission = FALSE
    /\ store = [m \in Modes |-> Absent]
    /\ storedName = NoName
    /\ clock = 0
    /\ lastSave = NoSave
    /\ btn = Btn(FALSE, TRUE, FALSE)
    /\ nameStatus = ""
    /\ alertShown = FALSE
    /\ stopHandler = 1
    /\ isRoundRunning = [m \in Modes |-> m = page]
    /\ nRounds = 1
    /\ phase = [r \in Rounds |-> IF r = 1 THEN "active" ELSE "none"]
    /\ playerName = [r \in Rounds |-> IF r = 1 THEN <<"A", "l">> ELSE NoName]
    /\ finalized = [r \in Rounds |-> <<>>]
    /\ stopInStart = 0
    /\ nameRead = NoName
    /\ AuxInit
    /\ nMotionEvents = 0
    /\ warnTimers = {}
    /\ IF page = "laugh"
       THEN /\ \E h \in PlayedTicks :
                 LET l == RunTicks([LrInit EXCEPT !.gameLoop = TRUE], PlayBaseline, h)
                     ema == RunEma(0, h)
                 IN  /\ lr = [r \in Rounds |->
                                IF r = 1
                                THEN [l EXCEPT !.nLaugh = 0, !.nLoud = 0, !.nErr = 0]
                                ELSE LrInit]
                     /\ emaLaughProb = ema
                     /\ meter = [MeterInit EXCEPT !.rms = h[Len(h)].rms,
                                                  !.laugh = ema,
                                                  !.joy = JoyRank(l, PlayBaseline)]
            /\ status = St("go", "ok")
            /\ audioClassifier = "primary"
            /\ audioContext = 1
            /\ analyserNode = 1
            /\ scriptProcessorNode = 1
            /\ rafId = 1
            /\ baselineRMS = PlayBaseline
            /\ openContexts = {1}
            /\ micStreams = {1}
            /\ motionDataAvailable = FALSE
            /\ lastTimestamp = 0
            /\ integratedAccEnergy = 0
            /\ integratedRotEnergy = 0
            /\ liveAcceleration = 0
            /\ liveRotation = 0
            /\ gameLoopId = 0
            /\ frameTimers = {}
            /\ motionListener = FALSE
            /\ sr = [r \in Rounds |-> SrInit]
       ELSE /\ \E e \in PlayedMotion :
                 /\ motionDataAvailable = (e.last # 0)
                 /\ lastTimestamp = e.last
                 /\ integratedAccEnergy = e.acc
                 /\ integratedRotEnergy = e.rot
                 /\ liveAcceleration = e.liveAcc
                 /\ liveRotation = e.liveRot
                 /\ status = IF e.last # 0 THEN St("go", "ok")
                             ELSE St("no_motion", "warn")
                 /\ meter = [MeterInit EXCEPT
                               !.acc = clamp(e.liveAcc * 6, 0, 100),
                               !.rot = clamp((e.liveRot * 4) \div 10, 0, 100),
                               !.shake = ShakeRank(e.acc, e.rot)]
            /\ gameLoopId = 1
            /\ frameTimers = {1}
            /\ motionListener = TRUE
            /\ sr = [r \in Rounds |->
                       IF r = 1
                       THEN [elapsedTime |-> PlayedElapsed,
                             frames |-> PlayedFrames]
                       ELSE SrInit]
            /\ audioClassifier = "none"
            /\ audioContext = 0
            /\ analyserNode = 0
            /\ scriptProcessorNode = 0
            /\ rafId = 0
            /\ baselineRMS = [sum |-> 0, count |-> 1]
            /\ emaLaughProb = 0
            /\ openContexts = {}
            /\ micStreams = {}
            /\ lr = [r \in Rounds |-> LrInit]

NextPlay ==
    \/ \E r \in Rounds, c \in TickInputs, rms \in RmsInputs : LaughTick(r, c, rms)
    \/ LaughStopClick
    \/ \E ev \in MotionInputs, g \in Gaps : MotionEvent(ev, g)
    \/ \E r \in Rounds : ShakeFrame(r)
    \/ ShakeStopClick

SpecPlay == InitPlay /\ [][NextPlay]_vars

(* ------------------------- calibration at large ---------------------- *)
\* RMS readings during calibration, in thousandths, and a first test of
\* the loop that fails
CalibWide == {10, 30}
FirstSamples == CalibWide \cup {NoSample}

NextCalib ==
    \/ \E n \in NameInputs : LaughStartClick(n)
    \/ \E r \in Rounds, net \in NetOutcomes : LaughClassifierSettle(r, net)
    \/ \E r \in Rounds, g \in BOOLEAN, rms \in FirstSamples : LaughMicSettle(r, g, rms)
    \/ \E r \in Rounds, rms \in CalibWide : LaughCalibSample(r, rms)
    \/ \E r \in Rounds, rms \in QuietRms : LaughCalibDone(r, rms)
    \/ \E rms \in QuietRms : LaughMeterFrame(rms)
    \/ \E r \in Rounds, c \in QuietTicks, rms \in QuietRms : LaughTick(r, c, rms)
    \/ LaughStopClick
    \/ LaughAgainClick

SpecCalib == InitDirect /\ [][NextCalib]_vars

(* --------------------------- the name field -------------------------- *)
\* texts typed into #name-input
AnnMarie == <<"A","n","n","_","M","a","r","i","e"," ","2">>
NameCases ==
    { AnnMarie, <<>>, Rep("x", 17), Rep("x", 16), <<" ">> \o Rep("x", 16),
      <<"<","b",">">>, <<"a",">","b">>, <<"a","-","b">>, <<" ","B","o"," ">>,
      <<" "," "," ">>, <<"\t","A","l","\n">> }

NextName == \E n \in NameCases : SaveNameClick(n)

SpecName == Init /\ [][NextName]_vars

(* ------------------------- rounds under fairness --------------------- *)
\* ticks in a quiet room, the classifier failing or not
LiveTicks == QuietTicks \cup {[err |-> TRUE, p |-> 0]}

\* the name field holds a valid name or nothing
LiveNames == {<<"A","l">>, <<>>}

NextLive ==
    \/ \E n \in LiveNames : LaughStartClick(n)
    \/ \E r \in Rounds, net \in NetOutcomes : LaughClassifierSettle(r, net)
    \/ \E r \in Rounds, g \in BOOLEAN, rms \in CalibInputs : LaughMicSettle(r, g, rms)
    \/ \E r \in Rounds, rms \in CalibInputs : LaughCalibSample(r, rms)
    \/ \E r \in Rounds, rms \in QuietRms : LaughCalibDone(r, rms)
    \/ \E rms \in QuietRms : LaughMeterFrame(rms)
    \/ \E r \in Rounds, c \in LiveTicks, rms \in QuietRms : LaughTick(r, c, rms)
    \/ LaughStopClick
    \/ LaughAgainClick
    \/ \E n \in LiveNames : ShakeStartClick(n)
    \/ \E r \in Rounds, o \in PermOutcomes : ShakePermSettle(r, o)
    \/ \E ev \in MotionInputs, g \in Gaps : MotionEvent(ev, g)
    \/ \E r \in Rounds : WarnTimeout(r)
    \/ \E r \in Rounds : ShakeFrame(r)
    \/ ShakeStopClick
    \/ ShakeAgainClick

\* A timer of a round: its 250 ms tick interval, its frame timeout, its
\* 2000 ms timeout.
TimerStep ==
    \E r \in Rounds :
        \/ \E c \in LiveTicks, rms \in QuietRms : LaughTick(r, c, rms)
        \/ ShakeFrame(r)
        \/ WarnTimeout(r)

\* While timers are due, one of them fires.
TimersFire == WF_vars(TimerStep)

\* a first visit, or a browser that holds JSON of another shape under the
\* leaderboard keys
InitLive ==
    /\ InitPage
    /\ store \in {[m \in Modes |-> v] : v \in {Absent, ObjectJson}}

SpecLive == InitLive /\ [][NextLive]_vars /\ TimersFire

(* ----------------------- the tick's arithmetic ----------------------- *)
\* The first audio round of a first visit, as player "Al", at the end of
\* startLaughRound (line 256): calibrated to the baseline base, no tick yet.
ActiveAudioRound(base) ==
    /\ page = "laugh"
    /\ secure = TRUE
    /\ needsPermission = FALSE
    /\ store = [m \in Modes |-> Absent]
    /\ storedName = NoName
    /\ clock = 0
    /\ lastSave = NoSave
    /\ btn = Btn(FALSE, TRUE, FALSE)
    /\ status = St("go", "ok")
    /\ nameStatus = ""
    /\ alertShown = FALSE
    /\ meter = [MeterInit EXCEPT !.rms = 10]
    /\ stopHandler = 1
    /\ isRoundRunning = [m \in Modes |-> m = "laugh"]
    /\ nRounds = 1
    /\ phase = [r \in Rounds |-> IF r = 1 THEN "active" ELSE "none"]
    /\ playerName = [r \in Rounds |-> IF r = 1 THEN <<"A", "l">> ELSE NoName]
    /\ audioClassifier = "primary"
    /\ audioContext = 1
    /\ analyserNode = 1
    /\ scriptProcessorNode = 1
    /\ rafId = 1
    /\ baselineRMS = base
    /\ emaLaughProb = 0
    /\ openContexts = {1}
    /\ micStreams = {1}
    /\ lr = [r \in Rounds |-> IF r = 1 THEN [LrInit EXCEPT !.gameLoop = TRUE]
                                ELSE LrInit]
    /\ motionDataAvailable = FALSE
    /\ lastTimestamp = 0
    /\ integratedAccEnergy = 0
    /\ integratedRotEnergy = 0
    /\ liveAcceleration = 0
    /\ liveRotation = 0
    /\ gameLoopId = 0
    /\ frameTimers = {}
    /\ motionListener = FALSE
    /\ warnTimers = {}
    /\ sr = [r \in Rounds |-> SrInit]
    /\ nMotionEvents = 0
    /\ finalized = [r \in Rounds |-> <<>>]
    /\ stopInStart = 0
    /\ nameRead = NoName
    /\ AuxInit

\* Lines 182-219 of round 1's gameLoop on the classifier answer c and the
\* RMS reading rms: the loudness penalty, the streak and the sums, without
\* the meters and the end-of-round test.  At most max ticks are followed.
\* the buffer in storage order, from index 0
AudioSliceFromStart(buf, idx) ==
    [k \in 1..RING_LEN |-> buf[k - 1]]

\* audioSlice.set(ringBuffer.subarray(ringBufferIndex), 0);
\* audioSlice.set(ringBuffer.subarray(0, ringBufferIndex), tailLength)
AudioSlice(buf, idx) ==
    LET tailLength == RING_LEN - idx
    IN  [k \in 1..RING_LEN |->
            IF k <= tailLength THEN buf[idx + k - 1] ELSE buf[k - 1 - tailLength]]

\* for (i < inputData.length) { ringBuffer[ringBufferIndex++] = inputData[i];
\*   if (ringBufferIndex >= ringBuffer.length) ringBufferIndex = 0; }
\* the k-th sample the microphone ever delivered has the value k
RECURSIVE WriteSamples(_, _, _, _)
WriteSamples(buf, idx, first, n) ==
    IF n = 0 THEN [buf |-> buf, idx |-> idx]
    ELSE WriteSamples([buf EXCEPT ![idx] = first],
                      IF idx + 1 >= RING_LEN THEN 0 ELSE idx + 1,
                      first + 1, n - 1)

\* scriptProcessorNode.onaudioprocess with a block of n samples
AudioProcess(n, max) ==
    /\ scriptProcessorNode # 0
    /\ nSamples + n <= max
    /\ \E w \in {WriteSamples(ringBuffer, ringBufferIndex, nSamples + 1, n)} :
          /\ ringBuffer' = w.buf
          /\ ringBufferIndex' = w.idx
    /\ nSamples' = nSamples + n
    /\ UNCHANGED <<envVars, nameRead, tickLog, storeVars, domVars, roundVars,
                   laughVars, shakeVars, histVars>>

TickApply(c, rms, max) ==
    /\ lr[1].gameLoop
    /\ isRoundRunning["laugh"]
    /\ Len(tickLog) < max
    /\ lr' = [lr EXCEPT ![1] = TickLocals(lr[1], c, rms, baselineRMS)]
    /\ tickLog' = Append(tickLog, [c |-> c, rms |-> rms,
                                   audioSlice |-> AudioSlice(ringBuffer, ringBufferIndex)])
    /\ UNCHANGED <<envVars, nameRead, ringBuffer, ringBufferIndex, nSamples,
                   storeVars, domVars, roundVars, audioClassifier, audioContext,
                   analyserNode, scriptProcessorNode, rafId, baselineRMS,
                   emaLaughProb, openContexts, micStreams, shakeVars, histVars>>

\* ticks followed, and what the classifier does on them: it throws, or
\* its sum is just under 0.6, or 0.6
MaxStreakTicks == 9
StreakTicks == {[err |-> TRUE, p |-> 0], [err |-> FALSE, p |-> 59],
                [err |-> FALSE, p |-> 60]}

NextStreak ==
    \E c \in StreakTicks, rms \in QuietRms : TickApply(c, rms, MaxStreakTicks)

SpecStreak == ActiveAudioRound(PlayBaseline) /\ [][NextStreak]_vars

\* ticks followed for the loudness penalty; baselines 0.01 and 0.0125 (the
\* mean of 0.01 and 0.015); RMS readings around the thresholds 0.11 and
\* 0.1125 and around the cap 0.03 above them
MaxLoudLog == 4
LoudBaselines == {[sum |-> 10, count |-> 1], [sum |-> 25, count |-> 2]}
LoudRms == {110, 111, 113, 140, 143}

InitLoud == \E base \in LoudBaselines : ActiveAudioRound(base)

NextLoud ==
    \E c \in QuietTicks, rms \in LoudRms : TickApply(c, rms, MaxLoudLog)

SpecLoud == InitLoud /\ [][NextLoud]_vars

\* samples and ticks followed for the ring buffer; blocks of two samples and
\* blocks larger than the buffer (the code's 16384 against 16000)
MaxSamples == 9
MaxRingTicks == 3
BlockSizes == {2, RING_LEN + 2}

NextRing ==
    \/ \E n \in BlockSizes : AudioProcess(n, MaxSamples)
    \/ \E c \in QuietTicks, rms \in QuietRms : TickApply(c, rms, MaxRingTicks)

SpecRing == ActiveAudioRound(PlayBaseline) /\ [][NextRing]_vars

(* ============================ properties ============================== *)
\* the last saveScore call recorded for round r
LastFinal(f, r) == f[r][Len(f[r])]
\* round r's stopRound has just saved
Finalizes(r) == Len(finalized'[r]) > Len(finalized[r])

\* C1: Finalization is idempotent per round.  A round that became Active
\* and ended has had saveScore performed exactly once, however often its
\* stopRound is invoked afterwards; a round that has not ended has saved
\* nothing and is still running; the leaderboard holds one entry per ended
\* round.
C1_FinalizeOnce ==
    /\ \A r \in Rounds :
          Len(finalized[r]) = IF phase[r] = "finished" THEN 1 ELSE 0
    /\ \A r \in Rounds : phase[r] = "active" => isRoundRunning[page]
    /\ Len(store[page].items) = Cardinality({r \in Rounds : phase[r] = "finished"})

\* round r has ended and its stopRound, still the Stop button's handler,
\* was invoked again by a click during the next round's start
C1_Witness ==
    \E r \in Rounds :
        /\ phase[r] = "finished"
        /\ stopHandler = r
        /\ stopInStart > r

\* C2: A manual stop of an Active round saves score 0 (whatever live score
\* was on display) under the name the round was started with, and goes
\* through the finalize path of a natural end: cleanup, the entry
\* persisted, the personal-best report, Play Again enabled.
C2_ManualStop ==
    [][\A r \in Rounds :
          (Finalizes(r) /\ LastFinal(finalized', r).via = "stop") =>
              LET f == LastFinal(finalized', r) IN
              /\ f.score = 0
              /\ f.name = playerName[r]
              /\ f.name # NoName
              /\ lastSave'.mode = page
              /\ lastSave'.name = f.name
              /\ lastSave'.score = 0
              /\ \E i \in 1..Len(store'[page].items) :
                     store'[page].items[i] = [name |-> f.name, score |-> 0, ts |-> clock']
              /\ status'.text = IF lastSave'.best THEN "new_best" ELSE "finished"
              /\ btn' = Btn(FALSE, FALSE, TRUE)
              /\ ~isRoundRunning'[page]
              /\ audioContext' = 0 /\ scriptProcessorNode' = 0 /\ rafId' = 0
              /\ ~lr'[r].gameLoop
              /\ ~motionListener' /\ r \notin frameTimers'
      ]_vars

\* a round ended by Stop while a live score above 0 was on display
C2_Witness ==
    \E r \in Rounds :
        /\ finalized[r] # <<>>
        /\ LastFinal(finalized, r).via = "stop"
        /\ LastFinal(finalized, r).score = 0
        /\ (meter.joy > 0 \/ meter.shake > 0)

\* C3 as stated: a natural end happens with exactly 10000 ms accumulated.
C3_ExactlyTenSeconds ==
    \A r \in Rounds : \A i \in 1..Len(finalized[r]) :
        finalized[r][i].via = "natural" =>
            finalized[r][i].elapsed = FOfMs(ROUND_DURATION)

\* C3: Absent a manual stop, an audio round is finalized on its 40th tick,
\* with exactly 10000 ms accumulated; a motion round is finalized on the
\* first frame at which the accumulated double-precision sum of 1000/60 ms
\* steps is at least 10000, which is the 601st frame (the sum after 600
\* frames is just below 10000); never on an earlier tick or frame; and the
\* score saved is the one computed and displayed on that same tick or frame.
C3_NaturalEnd ==
    [][\A r \in Rounds :
          (Finalizes(r) /\ LastFinal(finalized', r).via = "natural") =>
              LET f == LastFinal(finalized', r) IN
              /\ page = "laugh" =>
                     /\ f.ticks = 40
                     /\ f.elapsed = FOfMs(ROUND_DURATION)
                     /\ lr[r].elapsedTime = ROUND_DURATION - TICK_INTERVAL
                     /\ f.score = meter'.joy
              /\ page = "shake" =>
                     /\ f.ticks = 601
                     /\ sr[r].frames = 600
                     /\ ~FGeq(sr[r].elapsedTime, FOfMs(ROUND_DURATION))
                     /\ FGeq(f.elapsed, FOfMs(ROUND_DURATION))
                     /\ f.elapsed # FOfMs(ROUND_DURATION)
                     /\ f.score = meter'.shake
              /\ lastSave'.score = f.score
              /\ lastSave'.name = playerName[r]
      ]_vars

\* a motion round has ended by itself, on its 601st frame
C3_Witness ==
    \E r \in Rounds :
        /\ page = "shake"
        /\ finalized[r] # <<>>
        /\ LastFinal(finalized, r).via = "natural"
        /\ LastFinal(finalized, r).ticks = 601

\* C4: After any sequence of saveScore calls, from an empty or a valid
\* stored leaderboard, each mode's leaderboard holds at most 10 entries,
\* in non-increasing order of score.
C4_Leaderboard ==
    \A m \in Modes :
        /\ Len(store[m].items) <= TOP_N
        /\ \A i \in 1..(Len(store[m].items) - 1) :
               store[m].items[i].score >= store[m].items[i + 1].score

\* a save onto a board of ten: the new entry leads, an old one was dropped
C4_Witness ==
    /\ store["shake"] = Arr(FullBoard)
    /\ lastSave.mode = "laugh"
    /\ Len(store["laugh"].items) = TOP_N
    /\ store["laugh"].items[1].ts > 0

\* C5: saveScore reports a new personal best exactly when the mode's
\* leaderboard was empty before the call or the new score is strictly
\* greater than the previous top entry's score.
C5_NewBest ==
    (lastSave.mode # "none" /\ ~lastSave.threw) =>
        (lastSave.best <=> (lastSave.wasEmpty \/ lastSave.score > lastSave.prevTop))

\* C6: After Stop is clicked while a round's start is still in progress
\* (classifier load, permission request, calibration), no audio context
\* is open.
C6_StopDuringStart ==
    stopInStart # 0 => (audioContext = 0 /\ openContexts = {})

\* C7: Once a round is finalized, everything it registered is released:
\* the tick interval, the animation frame, the audio-process handler, the
\* audio graph and context, the microphone input, the frame timer, every
\* pending timer of the round, and the devicemotion listener.
C7_Released ==
    /\ \A r \in Rounds : phase[r] = "finished" =>
          /\ ~lr[r].gameLoop
          /\ rafId # r /\ scriptProcessorNode # r /\ analyserNode # r
          /\ audioContext # r /\ r \notin openContexts
          /\ r \notin micStreams
          /\ r \notin frameTimers
          /\ r \notin warnTimers
    /\ (\A r \in Rounds : phase[r] # "active") => ~motionListener

\* C8: At most one round's tick loop is live at any time, a start handler
\* run during a round included.
C8_OneRound ==
    Cardinality({r \in Rounds : lr[r].gameLoop}) <= 1

\* C9: After the latest start was aborted, the mode is Idle: no round is
\* running, no listener, timer or audio node is registered, the attempt
\* saved no score, the status is the error, Start is enabled, Stop and
\* Play Again are disabled.
C9_AbortIdle ==
    (nRounds > 0 /\ phase[nRounds] = "aborted") =>
        /\ ~isRoundRunning[page]
        /\ ~motionListener
        /\ frameTimers = {} /\ warnTimers = {}
        /\ \A q \in Rounds : ~lr[q].gameLoop
        /\ rafId = 0 /\ audioContext = 0 /\ analyserNode = 0
        /\ scriptProcessorNode = 0 /\ openContexts = {}
        /\ finalized[nRounds] = <<>>
        /\ status = St("start_error", "bad")
        /\ btn = Btn(TRUE, FALSE, FALSE)

\* a name sanitizeName accepts, as stored
ValidName(s) ==
    /\ Len(s) \in 1..NAME_MAX
    /\ \A i \in 1..Len(s) : s[i] \in NameChars
    /\ s[1] \notin WhiteSpace /\ s[Len(s)] \notin WhiteSpace

\* C10: A start whose precondition fails (an insecure context on the laugh
\* page, a name that fails sanitization on either page) does nothing but
\* tell the user: no classifier load, no permission request, no listener or
\* timer, no change of round or button state.  So no round is ever started
\* in an insecure context or under an invalid name.
C10_Preconditions ==
    /\ [](\A r \in Rounds : phase[r] # "none" => ValidName(playerName[r]))
    /\ []((page = "laugh" /\ ~secure) =>
             /\ nRounds = 0
             /\ audioClassifier = "none"
             /\ micStreams = {} /\ openContexts = {}
             /\ btn = Btn(TRUE, FALSE, FALSE))
    /\ [][(alertShown' # alertShown \/ nameStatus' # nameStatus) =>
             UNCHANGED <<envVars, nameRead, auxVars, storeVars, btn, status, meter, stopHandler,
                         roundVars, laughVars, shakeVars, histVars>>]_vars

\* Start was clicked with an unusable name between two rounds: the refusal
\* is shown and the page is as the first round left it
C10_Witness ==
    /\ nameStatus = "please_save"
    /\ nRounds = 1
    /\ phase[1] = "finished"
    /\ btn = Btn(TRUE, FALSE, FALSE)

\* C11: A classifier error on an audio tick is not fatal.  On that tick p
\* is 0: the tick counts in the cumulative mean (one more tick, nothing
\* added to the sum), resets the streak, earns no bonus, and the score
\* shown is the formula's value for those sums; the round stays Active
\* and nothing is saved.  Later ticks of the round go on counting, and
\* its natural end comes on the 40th tick as without an error.
C11_ErrorTick ==
    [][\A r \in Rounds :
          /\ lr'[r].nErr > lr[r].nErr =>
                /\ lr'[r].frameCount = lr[r].frameCount + 1
                /\ lr'[r].laughProbSum = lr[r].laughProbSum
                /\ lr'[r].streak = 0
                /\ lr'[r].streakBonus = lr[r].streakBonus
                /\ lr'[r].elapsedTime = lr[r].elapsedTime + TICK_INTERVAL
                /\ lr'[r].gameLoop
                /\ meter'.joy = JoyRank(lr'[r], baselineRMS)
                /\ phase'[r] = "active"
                /\ isRoundRunning'["laugh"]
                /\ UNCHANGED <<storeVars, btn, status, audioContext,
                               analyserNode, scriptProcessorNode, finalized>>
          /\ (lr[r].nErr > 0 /\ lr'[r] # lr[r]) =>
                \/ /\ lr'[r].frameCount = lr[r].frameCount + 1
                   /\ lr'[r].elapsedTime < ROUND_DURATION
                   /\ phase'[r] = "active"
                \/ /\ Finalizes(r)
                   /\ LastFinal(finalized', r).via = "stop"
                \/ /\ Finalizes(r)
                   /\ LastFinal(finalized', r).via = "natural"
                   /\ LastFinal(finalized', r).ticks = 40
                   /\ lr[r].frameCount = 39
      ]_vars

\* a round one tick from its natural end in which the classifier threw
\* on a tick after a laughter tick, and both ticks are in the mean
C11_Witness ==
    \E r \in Rounds :
        /\ phase[r] = "active"
        /\ lr[r].nErr = 1
        /\ lr[r].laughProbSum = 100
        /\ lr[r].frameCount = 39
        /\ lr[r].elapsedTime = ROUND_DURATION - TICK_INTERVAL
        /\ meter.joy = JoyRank(lr[r], baselineRMS)

\* C12: Corrupt or missing stored data is an empty leaderboard.  Where
\* the value stored under the mode's key was absent, no JSON, or JSON that
\* is no array of entries, loadScores returned an empty list, the
\* saveScore call that followed completed without an error, and the value
\* now stored is a leaderboard of just the new entry.
C12_CorruptStore ==
    (lastSave.mode # "none" /\ lastSave.found # "array") =>
        /\ lastSave.wasEmpty
        /\ ~lastSave.threw
        /\ store[lastSave.mode] =
               Arr(<<[name |-> lastSave.name, score |-> lastSave.score,
                      ts |-> clock]>>)

\* C13: Every score a round persists, in either mode, by a manual stop or
\* by the natural end, is a non-negative integer.
C13_NonNegative ==
    /\ \A r \in Rounds : \A i \in 1..Len(finalized[r]) :
           finalized[r][i].score \in Nat
    /\ \A m \in Modes : \A i \in 1..Len(store[m].items) :
           store[m].items[i].score \in Nat
    /\ lastSave.score \in Nat

\* an audio round that heard no laughter and two ticks too loud (the one
\* history of PlayedTicks that ends with score 0) has ended by itself:
\* 100 * mean(p) - 15 * penalty was below -0.5, and 0 was stored
C13_Witness ==
    /\ page = "laugh"
    /\ finalized[1] # <<>>
    /\ LastFinal(finalized, 1).via = "natural"
    /\ LastFinal(finalized, 1).score = 0
    /\ store["laugh"] = Arr(<<[name |-> <<"A", "l">>, score |-> 0, ts |-> clock]>>)

\* C14: After every audio tick the score on display is
\* round(max(0, 100 * mean(p) - 15 * loudPenalty + 2 * streakBonus)) over
\* all ticks of the round so far, a function of these sums alone and not
\* of the smoothed laughter meter; mean(p) = 0.5 with no penalty and
\* streakBonus 3 gives 56.  (With x = num / den, den > 0, s = round(x)
\* says 2 * s - 1 <= 2 * x < 2 * s + 1.)
C14_ScoreFormula ==
    \A r \in Rounds :
        (phase[r] = "active" /\ lr[r].frameCount > 0) =>
            LET l   == lr[r]
                den == 1000 * baselineRMS.count * l.frameCount
                num == l.laughProbSum * 1000 * baselineRMS.count
                       - 15 * l.loudPenalty * l.frameCount
                       + 2 * l.streakBonus * den
                s   == meter.joy
            IN  /\ s \in Nat
                /\ IF num <= 0 THEN s = 0
                   ELSE (2 * s - 1) * den <= 2 * num /\ 2 * num < (2 * s + 1) * den
                /\ (2 * l.laughProbSum = 100 * l.frameCount
                        /\ l.loudPenalty = 0 /\ l.streakBonus = 3) => s = 56

\* 24 ticks, twelve of them certain laughter in a row: the score is 56
\* while the smoothed meter shows something else
C14_Witness ==
    /\ phase[1] = "active"
    /\ lr[1].frameCount = 24
    /\ lr[1].laughProbSum = 1200
    /\ lr[1].streakBonus = 3
    /\ lr[1].loudPenalty = 0
    /\ meter.joy = 56
    /\ meter.laugh # 56

\* C15: The live shake score a frame computes is
\* round(6 * integratedAccEnergy + 2 * integratedRotEnergy), 70 for
\* energies 10.0 and 5.0, and within a round it never decreases from one
\* frame to the next, because no motion event decreases an accumulator.
C15_ShakeScore ==
    [][\A r \in Rounds :
          /\ (phase[r] = "active" /\ phase'[r] = "active") =>
                /\ integratedAccEnergy' >= integratedAccEnergy
                /\ integratedRotEnergy' >= integratedRotEnergy
          /\ (phase[r] = "active" /\
                (\/ sr'[r].frames > sr[r].frames
                 \/ Finalizes(r) /\ LastFinal(finalized', r).via = "natural")) =>
                LET s == meter'.shake
                    x == 6 * integratedAccEnergy + 2 * integratedRotEnergy
                IN  /\ s >= meter.shake
                    /\ (2 * s - 1) * 1000 <= 2 * x
                    /\ 2 * x < (2 * s + 1) * 1000
                    /\ (integratedAccEnergy = 10000 /\ integratedRotEnergy = 5000)
                           => s = 70
      ]_vars

\* a round whose score was 70 got one more event and a frame after it:
\* the score has risen
C15_Witness ==
    /\ page = "shake"
    /\ phase[1] = "active"
    /\ sr[1].frames > PlayedFrames
    /\ integratedAccEnergy > 10000
    /\ meter.shake > 70

\* a step in which a motion event was handled
MotionStep == nMotionEvents' = nMotionEvents + 1

C17_Baseline ==
    [][\A r \in Rounds :
          /\ (phase[r] = "calib" /\ phase'[r] = "calib" /\ lr'[r] # lr[r]) =>
                /\ lr'[r].rmsCount = lr[r].rmsCount + 1
                /\ lr'[r].rmsSum - lr[r].rmsSum \in CalibWide
          /\ (phase[r] = "calib" /\ phase'[r] # "calib") =>
                IF lr[r].rmsCount = 0
                THEN baselineRMS'.sum * 100 = baselineRMS'.count * 1000
                ELSE baselineRMS'.sum * lr[r].rmsCount
                         = lr[r].rmsSum * baselineRMS'.count
      ]_vars

\* a round is in play on the mean 0.02 of the samples 0.01 and 0.03
C17_Witness ==
    /\ phase[1] = "active"
    /\ baselineRMS = [sum |-> 20, count |-> 1]
    /\ lr[1].gameLoop

\* a name of 1 to 16 characters drawn from [A-Za-z0-9_ ]
InClass(s) == Len(s) \in 1..16 /\ \A i \in 1..Len(s) : s[i] \in NameChars

\* t is s without its leading and trailing whitespace
Trimmed(s, t) ==
    \E i \in 0..Len(s) : \E j \in i..Len(s) :
        /\ t = SubSeq(s, i + 1, j)
        /\ \A k \in 1..i : s[k] \in WhiteSpace
        /\ \A k \in (j + 1)..Len(s) : s[k] \in WhiteSpace
        /\ t = <<>> \/ (t[1] \notin WhiteSpace /\ t[Len(t)] \notin WhiteSpace)

\* the last Save Name click accepted the text it read
Accepted == nameStatus = "saved"
SaveClicked == nameStatus \in {"saved", "invalid"}

\* C18 as stated: sanitizeName accepts a name exactly when it is 1 to 16
\* characters drawn from [A-Za-z0-9_ ].
C18_ExactlyClass ==
    SaveClicked => (Accepted <=> InClass(nameRead))

\* C18: sanitizeName accepts a name exactly when the name without its
\* leading and trailing whitespace is 1 to 16 characters drawn from
\* [A-Za-z0-9_ ], and returns that trimmed name: it accepts "Ann_Marie 2"
\* and rejects "", a name that is 17 characters long once trimmed and any
\* string containing '<' or '>'.
C18_TrimmedClass ==
    SaveClicked =>
        /\ Accepted <=>
               \E i \in 0..Len(nameRead) : \E j \in i..Len(nameRead) :
                   LET t == SubSeq(nameRead, i + 1, j)
                   IN  Trimmed(nameRead, t) /\ InClass(t)
        /\ Accepted => Trimmed(nameRead, storedName) /\ InClass(storedName)
        /\ nameRead = AnnMarie => Accepted /\ storedName = AnnMarie
        /\ nameRead \in {<<>>, Rep("x", 17)} => ~Accepted
        /\ (\E k \in 1..Len(nameRead) : nameRead[k] \in {"<", ">"}) => ~Accepted

\* the Save Name click read "Ann_Marie 2" and stored it
C18_Witness ==
    /\ nameRead = AnnMarie
    /\ storedName = AnnMarie
    /\ nameStatus = "saved"

\* the tasks-audio module and its WASM fileset load from one CDN or the other
LibsLoad(net) == (net.importJ \/ net.importU) /\ (net.filesetJ \/ net.filesetU)

\* the step leaves the round's start aborted with no microphone asked for
\* and the classifier still unset
AbortsUnloaded(r) ==
    /\ phase'[r] = "aborted"
    /\ audioClassifier' = "none"
    /\ micStreams' = micStreams
    /\ status'.level = "bad"
    /\ btn' = Btn(TRUE, FALSE, FALSE)

\* C19 as stated: initialisation fails only if both model URLs fail.
C19_FailsOnlyIfBothFail ==
    [][\A r \in Rounds, net \in NetOutcomes :
          (LaughClassifierSettle(r, net) /\ phase'[r] = "aborted") =>
              ~net.primary /\ ~net.fallback
      ]_vars

\* C19: The model is created from the primary URL first and from the
\* fallback URL only if the primary attempt fails; initialisation fails,
\* aborting the round's start before the microphone is requested and
\* leaving the classifier unset, only if both attempts fail or the
\* tasks-audio module or its WASM fileset loads from neither CDN; a
\* classifier once loaded is reused by later rounds without loading.
C19_ClassifierLoading ==
    [][/\ audioClassifier # "none" => audioClassifier' = audioClassifier
       /\ \A r \in Rounds, net \in NetOutcomes :
            LaughClassifierSettle(r, net) =>
               IF audioClassifier # "none"
               THEN phase'[r] = "mic"
               ELSE /\ audioClassifier' = "primary" <=> LibsLoad(net) /\ net.primary
                    /\ audioClassifier' = "fallback" <=>
                           LibsLoad(net) /\ ~net.primary /\ net.fallback
                    /\ audioClassifier' = "none" <=>
                           ~LibsLoad(net) \/ (~net.primary /\ ~net.fallback)
                    /\ audioClassifier' = "none" => AbortsUnloaded(r)
                    /\ audioClassifier' # "none" =>
                           phase'[r] = "mic" /\ micStreams' = micStreams
      ]_vars

\* the first round's start failed at the classifier; the second start
\* loaded it again, from the fallback URL, and is at the microphone request
C19_Witness ==
    /\ phase[1] = "aborted"
    /\ micStreams = {}
    /\ phase[2] = "mic"
    /\ audioClassifier = "fallback"

\* the score round r was finalized with is on its mode's leaderboard
\* under the round's name
Persisted(r) ==
    /\ finalized[r] # <<>>
    /\ store[page].kind = "array"
    /\ \E i \in DOMAIN store[page].items :
          /\ store[page].items[i].name = playerName[r]
          /\ store[page].items[i].score = LastFinal(finalized, r).score

\* where the page's round controller stands
Life ==
    IF \E r \in Rounds : phase[r] = "active" THEN "Active"
    ELSE IF \E r \in Rounds : phase[r] = "calib" THEN "Calibrating"
    ELSE IF btn.again THEN "Finished"
    ELSE "Idle"

LifeMoves ==
    { <<"Idle", "Calibrating">>, <<"Idle", "Active">>, <<"Calibrating", "Active">>,
      <<"Active", "Finished">>, <<"Finished", "Idle">> }

\* C20: Every round that becomes Active eventually reaches Finished with
\* its score persisted, the timers firing fairly, whatever sensor events,
\* classifier failures and manual stops come in between; and the
\* controller only moves Idle -> Calibrating (laugh page only) -> Active ->
\* Finished -> Idle, a round being started from Idle only.
C20_Lifecycle ==
    /\ \A r \in Rounds :
          (phase[r] = "active") ~> (phase[r] = "finished" /\ Persisted(r))
    /\ [][/\ Life' # Life => <<Life, Life'>> \in LifeMoves
          /\ Life' = "Calibrating" => page = "laugh"
          /\ (Life = "Idle" /\ Life' = "Active") => page = "shake"
          /\ nRounds' # nRounds => Life = "Idle" /\ btn.start
          /\ \A r \in Rounds :
                /\ (phase[r] = "active" /\ phase'[r] # "active") =>
                       phase'[r] = "finished" /\ Persisted(r)'
                /\ phase[r] = "finished" => phase'[r] = "finished"
      ]_vars

\* a step in which round r's scoring tick ran
TickRan(r) ==
    \/ lr'[r].frameCount > lr[r].frameCount
    \/ Finalizes(r) /\ LastFinal(finalized', r).via = "natural"

\* C21: No scoring tick of a laugh round runs, and isRoundRunning is not
\* set, before the round's calibration has completed; the baseline is
\* written by the step that completes the calibration and by no other,
\* once per round and before the round's first tick, and it keeps its
\* value until the round is finalized.
C21_CalibrationFirst ==
    [][/\ page = "laugh" =>
          \A r \in Rounds :
             /\ phase[r] \in {"classifier", "mic", "calib"} =>
                   /\ ~isRoundRunning["laugh"]
                   /\ ~lr[r].gameLoop
                   /\ lr[r].frameCount = 0
                   /\ ~TickRan(r)
             /\ TickRan(r) => phase[r] = "active"
             /\ phase'[r] = "active" => phase[r] \in {"calib", "active"}
             /\ phase'[r] = "calib" => phase[r] \in {"mic", "calib"}
             /\ phase[r] = "active" => baselineRMS' = baselineRMS
       /\ (~isRoundRunning["laugh"] /\ isRoundRunning'["laugh"]) =>
             \E r \in Rounds : phase[r] = "calib" /\ phase'[r] = "active"
       /\ baselineRMS' # baselineRMS =>
             \E r \in Rounds :
                /\ phase[r] = "calib" /\ phase'[r] # "calib"
                /\ lr[r].rmsCount > 0 =>
                      baselineRMS'.sum * lr[r].rmsCount
                          = lr[r].rmsSum * baselineRMS'.count
      ]_vars

\* the second round of a visit has ticked on its own baseline 0.03, the
\* first one having been played on 0.01
C21_Witness ==
    /\ page = "laugh"
    /\ phase[1] = "finished"
    /\ phase[2] = "active"
    /\ lr[2].frameCount > 0
    /\ baselineRMS = [sum |-> 30, count |-> 1]

\* a tick whose laughter probability is at least 0.6
Qualifies(t) == ~t.c.err /\ t.c.p >= 60

RECURSIVE RunBonus(_, _)
\* the sum of floor(length / 4) over the maximal runs of qualifying ticks
\* of h, the run in progress having length run
RunBonus(h, run) ==
    IF h = <<>> THEN run \div 4
    ELSE IF Qualifies(Head(h)) THEN RunBonus(Tail(h), run + 1)
    ELSE (run \div 4) + RunBonus(Tail(h), 0)

\* the length of the run of qualifying ticks h ends with
TrailingRun(h) ==
    CHOOSE n \in 0..Len(h) :
        /\ \A i \in (Len(h) - n + 1)..Len(h) : Qualifies(h[i])
        /\ n < Len(h) => ~Qualifies(h[Len(h) - n])

\* C22: The streak counter increments on a tick with p >= 0.6 and resets
\* to 0 on any other tick, and the bonus gains 1 exactly on every 4th
\* consecutive qualifying tick: after any ticks streak is the length of
\* the run they end with and streakBonus the sum of floor(run length / 4)
\* over their maximal runs of qualifying ticks.
C22_Streak ==
    /\ lr[1].frameCount = Len(tickLog)
    /\ lr[1].streak = TrailingRun(tickLog)
    /\ lr[1].streakBonus = RunBonus(tickLog, 0)

\* four qualifying ticks, a miss, then four more: two runs, bonus 2
C22_Witness ==
    /\ Len(tickLog) = 9
    /\ ~Qualifies(tickLog[5])
    /\ \A i \in (1..9) \ {5} : Qualifies(tickLog[i])
    /\ lr[1].streak = 4
    /\ lr[1].streakBonus = 2

\* min(0.03, rms - (baseline + 0.10)) where rms exceeds baseline + 0.10,
\* else 0, in units of 1 / (1000 * base.count)
TickPenalty(rms, base) ==
    LET threshold == base.sum + 100 * base.count
        x == rms * base.count
    IN  IF x > threshold
        THEN (IF x - threshold < 30 * base.count THEN x - threshold
              ELSE 30 * base.count)
        ELSE 0

RECURSIVE SumPenalty(_, _)
SumPenalty(h, base) ==
    IF h = <<>> THEN 0 ELSE TickPenalty(Head(h).rms, base) + SumPenalty(Tail(h), base)

\* C23: Each tick adds min(0.03, RMS - (baseline + 0.10)) to the loudness
\* penalty when RMS exceeds baseline + 0.10 and nothing otherwise: the
\* penalty is the sum of these over the ticks so far, never decreases, and
\* after n ticks is at most 0.03 * n.
C23_LoudPenalty ==
    /\ [](/\ lr[1].loudPenalty = SumPenalty(tickLog, baselineRMS)
          /\ lr[1].loudPenalty <= 30 * baselineRMS.count * Len(tickLog)
          /\ lr[1].loudPenalty >= 0)
    /\ [][lr'[1].loudPenalty >= lr[1].loudPenalty]_vars

\* on the baseline 0.0125: a tick at the cap, one just over the threshold
\* (0.0005 over), one under it
C23_Witness ==
    /\ baselineRMS = [sum |-> 25, count |-> 2]
    /\ Len(tickLog) = 3
    /\ tickLog[1].rms = 143
    /\ tickLog[2].rms = 113
    /\ tickLog[3].rms = 111
    /\ lr[1].loudPenalty = 61

\* the most recent RING_LEN samples of the n delivered, oldest first
MostRecent(n) == [k \in 1..RING_LEN |-> n - RING_LEN + k]

\* C24: After audio callbacks of any block sizes (blocks larger than the
\* buffer included) that together wrote at least one buffer capacity of
\* samples, the window a tick extracts (tail from the write cursor, then
\* head up to it) is exactly the most recent capacity-many samples, oldest
\* first.
C24_Window ==
    [][\A c \in QuietTicks, rms \in QuietRms :
         (TickApply(c, rms, MaxRingTicks) /\ nSamples >= RING_LEN)
             => tickLog'[Len(tickLog')].audioSlice = MostRecent(nSamples)
      ]_vars

\* one block larger than the buffer has wrapped the cursor past the start
\* (an odd number of samples needs the large block) and a tick has extracted
\* its window
C24_Witness ==
    /\ nSamples = RING_LEN + 2
    /\ ringBufferIndex = 2
    /\ ringBuffer = [i \in 0..(RING_LEN - 1) |-> IF i < 2 THEN RING_LEN + i + 1 ELSE RING_LEN]
    /\ Len(tickLog) = 1
    /\ tickLog[1].audioSlice = MostRecent(nSamples)

\* the shake round that is running has been warned about missing motion
Warned == status = St("no_motion", "warn") /\ isRoundRunning["shake"]

\* C25: If no motion event has arrived when the 2000 ms timeout of a shake
\* round fires and the round is still running, the warning status is shown
\* and the round is not aborted: it stays Active with its listener and its
\* frame loop, it ends by itself when left alone, and a natural end scores
\* the rank computed from the integrated energies.
C25_WarnKeepsRound ==
    /\ [][\A r \in Rounds :
            (WarnTimeout(r) /\ ~motionDataAvailable /\ isRoundRunning["shake"])
                => /\ status' = St("no_motion", "warn")
                   /\ isRoundRunning'["shake"]
                   /\ phase'[nRounds] = "active"
                   /\ motionListener'
                   /\ nRounds \in frameTimers'
                   /\ sr' = sr
                   /\ finalized' = finalized
         ]_vars
    /\ [][\A r \in Rounds :
            (Warned /\ Finalizes(r) /\ LastFinal(finalized', r).via = "natural")
                => /\ r = nRounds
                   /\ LastFinal(finalized', r).score =
                          ShakeRank(integratedAccEnergy, integratedRotEnergy)
                   /\ phase'[r] = "finished"
         ]_vars
    /\ (Warned ~> ~isRoundRunning["shake"])

\* a warned round has ended by itself, with no motion event ever seen
C25_Witness ==
    /\ page = "shake"
    /\ phase[1] = "finished"
    /\ finalized[1] # <<>>
    /\ LastFinal(finalized, 1).via = "natural"
    /\ LastFinal(finalized, 1).score = 0
    /\ ~motionDataAvailable
    /\ warnTimers = {}

\* C26: The no-motion warning is only ever shown for the round that
\* scheduled it: a 2000 ms timeout that sets the warning status belongs to
\* the round that is running, never to an earlier, finished round.
C26_OwnWarning ==
    [][\A q \in Rounds :
         (WarnTimeout(q) /\ ~motionDataAvailable /\ isRoundRunning["shake"])
             => (q = nRounds /\ phase[q] = "active")
      ]_vars

\* saveScore has been called in this step (Date.now() has been read)
SaveStep == clock' = clock + 1

\* C27: saveScore for one mode changes only that mode's stored
\* leaderboard: the other mode's leaderboard and the stored player name are
\* as they were, and no step other than a saveScore changes a leaderboard.
C27_OnlyOwnBoard ==
    [][/\ SaveStep =>
            /\ storedName' = storedName
            /\ \A m \in Modes \ {lastSave'.mode} : store'[m] = store[m]
       /\ ~SaveStep => store' = store
      ]_vars

\* a shake score saved onto a board of nine, next to a laugh board of nine
\* and a stored name, both as they were
C27_Witness ==
    /\ lastSave.mode = "shake"
    /\ clock = 1
    /\ Len(store["shake"].items) = TOP_N
    /\ store["laugh"] = Arr(NineBoard)
    /\ storedName = <<"A", "l">>

\* the board with the new entry put behind every entry that scores at
\* least as much, cut to the first TOP_N
RankedWith(prev, new) ==
    LET k == Cardinality({i \in 1..Len(prev) : prev[i].score >= new.score})
        all == SubSeq(prev, 1, k) \o <<new>> \o SubSeq(prev, k + 1, Len(prev))
    IN  SubSeq(all, 1, IF Len(all) < TOP_N THEN Len(all) ELSE TOP_N)

\* C28: After saveScore on a stored leaderboard (or on none) the stored
\* leaderboard is the 10 highest-scoring entries of the previous one plus
\* the new entry, previously stored entries ahead of the new entry on equal
\* score; when the leaderboard held 10 entries and the new score is not
\* strictly greater than the 10th entry's, it is unchanged and the new
\* entry is not in it.
C28_TopTenStable ==
    [][\A m \in Modes, n \in SaveNames, v \in ScoreInputs :
         (SaveCall(m, n, v) /\ store[m].kind # "object") =>
            LET prev == loadScores(store, m).items
                new == [name |-> n, score |-> v, ts |-> clock']
            IN  /\ store'[m] = Arr(RankedWith(prev, new))
                /\ (Len(prev) = TOP_N /\ v <= prev[TOP_N].score) =>
                       /\ store'[m] = store[m]
                       /\ \A i \in 1..Len(store'[m].items) : store'[m].items[i] # new
      ]_vars

\* a score equal to the tenth entry's was saved onto a board of ten, which
\* is as it was
C28_Witness ==
    /\ lastSave.mode = "laugh"
    /\ lastSave.score = 1
    /\ lastSave.found = "array"
    /\ clock = 1
    /\ store["laugh"] = Arr(FullBoard)

====
